---- MODULE Spec2Model ----
(***************************************************************************)
(* Model of RetrogradeSolverDB (src/src/retrograde_db.cpp): the disk-based *)
(* retrograde solver.  The key-value store is the variable db (one         *)
(* function per column family); the solver object's members are the record *)
(* m; pc is the position of the main thread inside solve(); l holds the    *)
(* locals of the phase function that is running; w holds the worker        *)
(* threads of the phase that is running.  A kill of the process discards   *)
(* m, l and w and keeps db.                                                *)
(*                                                                         *)
(* The game adapter (check_terminal, generate_moves, apply_move,           *)
(* canonicalize, pack_state) is instantiated with a small game: positions  *)
(* are named by their canonical packed value.                              *)
(***************************************************************************)
EXTENDS Integers, Sequences, FiniteSets, TLC

VARIABLES db, m, pc, l, w, crashes, runs, timer, env

vars == <<db, m, pc, l, w, crashes, runs, timer, env>>

-----------------------------------------------------------------------------
(* Bounds of the model.                                                    *)

\* how many times the process may be killed in one behaviour
MaxCrashes == 1

\* how many times a 60-second checkpoint timer expires in one behaviour
MaxTimer == 1

\* how many times the program is started (open, solve, close) in one behaviour
MaxRuns == 2

\* the largest thread count passed to set_num_threads
MaxThreads == 2

\* the number of values of one key byte (256 in the store); ids are encoded
\* little-endian in KeyBytes bytes and the store orders keys bytewise
ByteBase == 2

\* enumerate_states: BATCH_SIZE (1000 in the source), here scaled
SEQ_BATCH_SIZE == 2

\* enumerate_states_parallel: BATCH_SIZE (100000 in the source), here scaled
PAR_BATCH_SIZE == 2

\* checkpoint_interval_ (1000000 by default), here scaled
CheckpointInterval == 2

\* BloomFilter: num_bits_ (2^34 in the source) and NUM_HASHES (7), here scaled
BloomBits == 6

BloomHashes == 2

-----------------------------------------------------------------------------
(* Enumerations of the source.                                             *)

NOT_STARTED == 0
ENUMERATING == 1
BUILDING_PREDECESSORS == 2
MARKING_TERMINALS == 3
PROPAGATING == 4
COMPLETE == 5

UNKNOWN == "UNKNOWN"
WIN == "WIN"
LOSS == "LOSS"
DRAW == "DRAW"

ONGOING == "ONGOING"
WHITE_WINS == "WHITE_WINS"
BLACK_WINS == "BLACK_WINS"

\* width of a states key (uint32_t id)
KeyBytes == 4

-----------------------------------------------------------------------------
(* The game adapter.  The solver sees the game only through                *)
(* State::starting_position, check_terminal, generate_moves, apply_move,   *)
(* canonicalize and pack_state; env.game is one small game, fixed for a    *)
(* behaviour, and env.threads the thread counts that the command line may  *)
(* pass to set_num_threads.  A position is named by its canonical packed   *)
(* value, a positive number (0 is never the packed value of a position).   *)
(*   start   the canonical packed starting position                        *)
(*   white   the positions with white to move                              *)
(*   winner  check_terminal of each position                               *)
(*   moves   for each position the canonical packed successors, one per    *)
(*           legal move in the order of generate_moves (two moves may      *)
(*           lead to the same canonical successor)                         *)

Game(start, white, winner, moves) ==
    [start |-> start, white |-> white, winner |-> winner, moves |-> moves]

game == env.game

\* pack_state(canonicalize(State::starting_position()).first)
start_packed == game.start

\* unpack_state(packed).white_to_move
white_to_move(packed) == packed \in game.white

\* check_terminal(unpack_state(packed))
check_terminal(packed) == game.winner[packed]

\* for each move of generate_moves(s), in order:
\* pack_state(canonicalize(apply_move(s, move)).first)
generate_moves(packed) == game.moves[packed]

-----------------------------------------------------------------------------
(* The store: column families as functions, write batches as sequences of  *)
(* operations applied atomically.                                          *)

Has(cf, k) == k \in DOMAIN cf

PutKV(cf, k, v) == [x \in (DOMAIN cf) \cup {k} |-> IF x = k THEN v ELSE cf[x]]

DelK(cf, k) == [x \in (DOMAIN cf) \ {k} |-> cf[x]]

EmptyCF == [x \in {} |-> 0]

OpPut(cfname, k, v) == [op |-> "put", cf |-> cfname, k |-> k, v |-> v]

OpDel(cfname, k) == [op |-> "del", cf |-> cfname, k |-> k, v |-> 0]

ApplyOp(d, o) ==
    [d EXCEPT ![o.cf] = IF o.op = "put" THEN PutKV(@, o.k, o.v) ELSE DelK(@, o.k)]

RECURSIVE ApplyOps(_, _, _)
ApplyOps(d, batch, i) ==
    IF i > Len(batch) THEN d ELSE ApplyOps(ApplyOp(d, batch[i]), batch, i + 1)

\* db_->Write(options, &batch): all operations, in order, or none
Write(d, batch) == ApplyOps(d, batch, 1)

\* little-endian bytes of an id, as the store compares them
RECURSIVE LEBytes(_, _)
LEBytes(x, n) == IF n = 0 THEN <<>> ELSE <<x % ByteBase>> \o LEBytes(x \div ByteBase, n - 1)

RECURSIVE SeqLess(_, _, _)
SeqLess(a, b, i) ==
    IF i > Len(a) THEN FALSE
    ELSE IF a[i] # b[i] THEN a[i] < b[i]
    ELSE SeqLess(a, b, i + 1)

\* the store's order of two states keys
KeyLess(a, b) == SeqLess(LEBytes(a, KeyBytes), LEBytes(b, KeyBytes), 1)

\* the keys of a column family of ids in iterator order
RECURSIVE SortKeys(_)
SortKeys(S) ==
    IF S = {} THEN <<>>
    ELSE LET first == CHOOSE x \in S : \A y \in S \ {x} : KeyLess(x, y)
         IN  <<first>> \o SortKeys(S \ {first})

-----------------------------------------------------------------------------
(* The solver object.                                                      *)

\* bloom_filter_ == nullptr
NoBloom == [present |-> FALSE, bits |-> {}]

\* std::make_unique<BloomFilter>(...): no bit set
NewBloom == [present |-> TRUE, bits |-> {}]

\* the members of RetrogradeSolverDB right after construction
NewSolver ==
    [ phase_ |-> NOT_STARTED, num_states_ |-> 0, num_wins_ |-> 0,
      num_losses_ |-> 0, num_draws_ |-> 0, start_id_ |-> 0,
      enum_processed_ |-> 0, queue_head_ |-> 0, queue_tail_ |-> 0,
      num_threads_ |-> 1, bloom_filter_ |-> NoBloom ]

\* the write batch of save_metadata
MetadataBatch(mm) ==
    << OpPut("metadata", "phase", mm.phase_),
       OpPut("metadata", "num_states", mm.num_states_),
       OpPut("metadata", "num_wins", mm.num_wins_),
       OpPut("metadata", "num_losses", mm.num_losses_),
       OpPut("metadata", "num_draws", mm.num_draws_),
       OpPut("metadata", "start_id", mm.start_id_),
       OpPut("metadata", "enum_processed", mm.enum_processed_),
       OpPut("metadata", "queue_head", mm.queue_head_),
       OpPut("metadata", "queue_tail", mm.queue_tail_) >>

save_metadata(d, mm) == Write(d, MetadataBatch(mm))

MetaGet(d, k, default) == IF Has(d.metadata, k) THEN d.metadata[k] ELSE default

\* load_metadata without the read of the persisted phase
load_metadata_phase_not_loaded(d, mm) ==
    [ mm EXCEPT
      !.num_states_ = MetaGet(d, "num_states", @),
      !.num_wins_ = MetaGet(d, "num_wins", @),
      !.num_losses_ = MetaGet(d, "num_losses", @),
      !.num_draws_ = MetaGet(d, "num_draws", @),
      !.start_id_ = MetaGet(d, "start_id", @),
      !.enum_processed_ = MetaGet(d, "enum_processed", @),
      !.queue_head_ = MetaGet(d, "queue_head", @),
      !.queue_tail_ = MetaGet(d, "queue_tail", @) ]

load_metadata(d, mm) ==
    [ mm EXCEPT
      !.phase_ = MetaGet(d, "phase", 0),
      !.num_states_ = MetaGet(d, "num_states", @),
      !.num_wins_ = MetaGet(d, "num_wins", @),
      !.num_losses_ = MetaGet(d, "num_losses", @),
      !.num_draws_ = MetaGet(d, "num_draws", @),
      !.start_id_ = MetaGet(d, "start_id", @),
      !.enum_processed_ = MetaGet(d, "enum_processed", @),
      !.queue_head_ = MetaGet(d, "queue_head", @),
      !.queue_tail_ = MetaGet(d, "queue_tail", @) ]

StateInfoCompact(packed, result, num_successors, winning_succs) ==
    [ packed |-> packed, result |-> result,
      num_successors |-> num_successors, winning_succs |-> winning_succs ]

\* get_state_id: the id, or -1
get_state_id(d, packed) ==
    IF Has(d.packed_to_id, packed) THEN d.packed_to_id[packed] ELSE -1

\* get_or_create_state: <<id, db after, num_states_ after>>
get_or_create_state(d, num_states, packed) ==
    IF Has(d.packed_to_id, packed)
    THEN <<d.packed_to_id[packed], d, num_states>>
    ELSE <<num_states,
           Write(d, << OpPut("states", num_states, StateInfoCompact(packed, UNKNOWN, 0, 0)),
                       OpPut("packed_to_id", packed, num_states) >>),
           num_states + 1>>

NoLocals == [none |-> TRUE]

NoWorkers == [t \in {} |-> 0]

EmptyDB ==
    [ states |-> EmptyCF, packed_to_id |-> EmptyCF, predecessors |-> EmptyCF,
      queue |-> EmptyCF, metadata |-> EmptyCF ]

-----------------------------------------------------------------------------
(* The process: main() of retrograde_db_main.cpp opens the database, sets  *)
(* the thread count and calls solve(); close() saves the metadata.         *)

\* the state of the process and of the store before the first start
Fresh ==
    /\ db = EmptyDB
    /\ m = NewSolver
    /\ pc = "closed"
    /\ l = NoLocals
    /\ w = NoWorkers
    /\ crashes = 0
    /\ runs = 0
    /\ timer = 0

\* eight positions: 5 is the start, 6 and 8 have the bobail on white's home
\* row, 1 is blocked, 2 and 4 form a cycle, two moves of 7 lead to 3
Game8 ==
    Game(5, {5, 4, 3, 6},
         [p \in 1..8 |-> IF p \in {6, 8} THEN WHITE_WINS ELSE ONGOING],
         [p \in 1..8 |-> CASE p = 5 -> <<7, 2>>
                           [] p = 7 -> <<3, 3, 6>>
                           [] p = 2 -> <<4>>
                           [] p = 4 -> <<2>>
                           [] p = 3 -> <<8, 1>>
                           [] OTHER -> <<>>])

\* open(): load_metadata; set_num_threads(n); then solve() is entered
Open ==
    /\ pc = "closed"
    /\ runs < MaxRuns
    /\ \E n \in env.threads :
         m' = [load_metadata(db, NewSolver) EXCEPT !.num_threads_ = n]
    /\ pc' = "solve"
    /\ runs' = runs + 1
    /\ UNCHANGED <<db, l, w, crashes, timer, env>>

\* the process is killed: memory is lost, the store keeps what was written
Crash ==
    /\ pc # "closed"
    /\ crashes < MaxCrashes
    /\ pc' = "closed"
    /\ m' = NewSolver
    /\ l' = NoLocals
    /\ w' = NoWorkers
    /\ crashes' = crashes + 1
    /\ UNCHANGED <<db, runs, timer, env>>

\* the conditions of the four blocks of solve()
RunsEnumerate(phase) == phase = NOT_STARTED \/ phase = ENUMERATING

RunsBuildPredecessors(phase) == phase = BUILDING_PREDECESSORS

RunsMarkTerminals(phase) == phase = MARKING_TERMINALS

\* the fourth block entered on COMPLETE as well
RunsPropagate_from_complete(phase) == phase >= PROPAGATING

RunsPropagate(phase) == phase = PROPAGATING

\* solve(): the first block whose condition holds is entered; a block whose
\* condition fails is skipped without any effect
SolveDispatch ==
    /\ pc = "solve"
    /\ IF RunsEnumerate(m.phase_)
       THEN /\ m' = [m EXCEPT !.phase_ = ENUMERATING]
            /\ pc' = IF m.num_threads_ > 1 THEN "enum_par" ELSE "enum_seq"
       ELSE /\ m' = m
            /\ pc' = IF RunsBuildPredecessors(m.phase_) THEN "build_preds"
                     ELSE IF RunsMarkTerminals(m.phase_)
                          THEN (IF m.num_threads_ > 1 THEN "mark_par" ELSE "mark_seq")
                     ELSE IF RunsPropagate(m.phase_) THEN "propagate"
                     ELSE "solve_return"
    /\ UNCHANGED <<db, l, w, crashes, runs, timer, env>>

\* the end of a block of solve(): phase_ = next; save_metadata()
PhaseDone(at, next) ==
    /\ pc = at
    /\ m' = [m EXCEPT !.phase_ = next]
    /\ db' = save_metadata(db, m')
    /\ pc' = "solve"
    /\ l' = NoLocals
    /\ UNCHANGED <<w, crashes, runs, timer, env>>

EnumerateDone == PhaseDone("enum_done", BUILDING_PREDECESSORS)

\* solve() has returned; main() calls close(), which saves the metadata
Close ==
    /\ pc = "solve_return"
    /\ db' = save_metadata(db, m)
    /\ pc' = "closed"
    /\ UNCHANGED <<m, l, w, crashes, runs, timer, env>>

-----------------------------------------------------------------------------
(* Phase 1, sequential: enumerate_states.                                  *)

SeqLocals(mm) ==
    [ batch |-> <<>>, batch_count |-> 0, last_save |-> mm.enum_processed_,
      id |-> 0, packed |-> 0, moves |-> <<>>, mi |-> 1 ]

\* entry: on a fresh database the start state is created
EnumSeqBegin ==
    /\ pc = "enum_seq"
    /\ IF m.queue_tail_ = 0 /\ m.queue_head_ = 0 /\ m.num_states_ = 0
       THEN LET r == get_or_create_state(db, m.num_states_, start_packed)
            IN  /\ db' = r[2]
                /\ m' = [m EXCEPT !.start_id_ = r[1], !.num_states_ = r[3]]
                /\ pc' = "enum_seq_start"
                /\ l' = l
       ELSE /\ pc' = "enum_seq_loop"
            /\ l' = SeqLocals(m)
            /\ UNCHANGED <<db, m>>
    /\ UNCHANGED <<w, crashes, runs, timer, env>>

\* the start state is put on the queue, directly in the store
EnumSeqStartQueue ==
    /\ pc = "enum_seq_start"
    /\ db' = Write(db, <<OpPut("queue", m.queue_tail_, m.start_id_)>>)
    /\ m' = [m EXCEPT !.queue_tail_ = @ + 1, !.enum_processed_ = 0]
    /\ l' = SeqLocals(m')
    /\ pc' = "enum_seq_loop"
    /\ UNCHANGED <<w, crashes, runs, timer, env>>

\* one turn of the while loop up to the successor loop: pop, expand
EnumSeqPop ==
    /\ pc = "enum_seq_loop"
    /\ IF ~(m.queue_head_ < m.queue_tail_) \/ ~Has(db.queue, m.queue_head_)
       THEN \* loop condition false, or the Get of the queue entry failed: break
            /\ pc' = "enum_seq_final"
            /\ UNCHANGED <<db, m, l>>
       ELSE LET id == db.queue[m.queue_head_]
                batch1 == Append(l.batch, OpDel("queue", m.queue_head_))
                m1 == [m EXCEPT !.queue_head_ = @ + 1]
            IN  IF ~Has(db.states, id)
                THEN /\ m' = m1
                     /\ l' = [l EXCEPT !.batch = batch1]
                     /\ pc' = "enum_seq_loop"
                     /\ db' = db
                ELSE LET info == db.states[id]
                         terminal == check_terminal(info.packed) # ONGOING
                         moves == IF terminal THEN <<>> ELSE generate_moves(info.packed)
                     IN  /\ db' = Write(db, <<OpPut("states", id,
                                        [info EXCEPT !.num_successors = Len(moves)])>>)
                         /\ IF moves = <<>>
                            THEN /\ m' = [m1 EXCEPT !.enum_processed_ = @ + 1]
                                 /\ l' = [l EXCEPT !.batch = batch1]
                                 /\ pc' = "enum_seq_loop"
                            ELSE /\ m' = m1
                                 /\ l' = [l EXCEPT !.batch = batch1, !.id = id,
                                            !.packed = info.packed,
                                            !.moves = moves, !.mi = 1]
                                 /\ pc' = "enum_seq_moves"
    /\ UNCHANGED <<w, crashes, runs, timer, env>>

\* one successor: a new state is created at once, its queue entry is batched
EnumSeqMove ==
    /\ pc = "enum_seq_moves"
    /\ LET ns_packed == l.moves[l.mi]
           last == l.mi = Len(l.moves)
       IN  /\ IF get_state_id(db, ns_packed) < 0
              THEN LET r == get_or_create_state(db, m.num_states_, ns_packed)
                   IN  /\ db' = r[2]
                       /\ m' = [m EXCEPT !.num_states_ = r[3], !.queue_tail_ = @ + 1]
                       /\ l' = [l EXCEPT !.batch = Append(@, OpPut("queue", m.queue_tail_, r[1])),
                                         !.batch_count = @ + 1, !.mi = @ + 1]
              ELSE /\ l' = [l EXCEPT !.mi = @ + 1]
                   /\ UNCHANGED <<db, m>>
           /\ pc' = IF last THEN "enum_seq_post" ELSE "enum_seq_moves"
    /\ UNCHANGED <<w, crashes, runs, timer, env>>

SeqCheckpointDue(mm, ll) ==
    CheckpointInterval > 0 /\ mm.enum_processed_ - ll.last_save >= CheckpointInterval

\* after the successors: count, flush the batch when it is full
EnumSeqPost ==
    /\ pc = "enum_seq_post"
    /\ m' = [m EXCEPT !.enum_processed_ = @ + 1]
    /\ IF l.batch_count >= SEQ_BATCH_SIZE
       THEN /\ db' = Write(db, l.batch)
            /\ l' = [l EXCEPT !.batch = <<>>, !.batch_count = 0]
       ELSE UNCHANGED <<db, l>>
    /\ pc' = IF SeqCheckpointDue(m', l') THEN "enum_seq_ckpt" ELSE "enum_seq_loop"
    /\ UNCHANGED <<w, crashes, runs, timer, env>>

\* periodic checkpoint, first half: the batch is written
EnumSeqCheckpointWrite ==
    /\ pc = "enum_seq_ckpt"
    /\ db' = Write(db, l.batch)
    /\ l' = [l EXCEPT !.batch = <<>>, !.batch_count = 0]
    /\ pc' = "enum_seq_ckpt_save"
    /\ UNCHANGED <<m, w, crashes, runs, timer, env>>

\* periodic checkpoint, second half: save_metadata
EnumSeqCheckpointSave ==
    /\ pc = "enum_seq_ckpt_save"
    /\ db' = save_metadata(db, m)
    /\ l' = [l EXCEPT !.last_save = m.enum_processed_]
    /\ pc' = "enum_seq_loop"
    /\ UNCHANGED <<m, w, crashes, runs, timer, env>>

\* after the loop: the remaining batch is written
EnumSeqFinal ==
    /\ pc = "enum_seq_final"
    /\ db' = IF l.batch_count > 0 THEN Write(db, l.batch) ELSE db
    /\ pc' = "enum_done"
    /\ l' = NoLocals
    /\ UNCHANGED <<m, w, crashes, runs, timer, env>>

EnumSeq ==
    \/ EnumSeqBegin \/ EnumSeqStartQueue \/ EnumSeqPop \/ EnumSeqMove
    \/ EnumSeqPost \/ EnumSeqCheckpointWrite \/ EnumSeqCheckpointSave
    \/ EnumSeqFinal

-----------------------------------------------------------------------------
(* Phase 1, parallel: enumerate_states_parallel.  The load, pre-fetch,     *)
(* expand and check threads of one batch only read the store and members   *)
(* that no thread writes meanwhile, and fill thread-local vectors that the *)
(* main thread sorts and deduplicates; one batch up to its db_->Write is   *)
(* therefore one step.                                                     *)

\* BloomFilter::hash(value, seed) % num_bits_, with a small mixing function
BloomHash(value, seed) == (value * (seed + 2) + seed) % BloomBits

BloomIdx(value) == { BloomHash(value, i) : i \in 0..(BloomHashes - 1) }

\* BloomFilter::add: the filter is the set of bits that are set
BloomAdd(bloom, value) == [bloom EXCEPT !.bits = @ \cup BloomIdx(value)]

\* BloomFilter::maybe_contains
maybe_contains(bloom, value) == BloomIdx(value) \subseteq bloom.bits

Min(a, b) == IF a < b THEN a ELSE b

\* std::sort + std::unique of a vector of integers
RECURSIVE SortUnique(_)
SortUnique(S) ==
    IF S = {} THEN <<>>
    ELSE LET lo == CHOOSE x \in S : \A y \in S : x <= y
         IN  <<lo>> \o SortUnique(S \ {lo})

Range(sq) == { sq[i] : i \in 1..Len(sq) }

RECURSIVE SelectSeqIdx(_, _, _)
\* the queue entries found among the indices lo..hi-1, in order
SelectSeqIdx(q, lo, hi) ==
    IF lo >= hi THEN <<>>
    ELSE (IF Has(q, lo) THEN <<q[lo]>> ELSE <<>>) \o SelectSeqIdx(q, lo + 1, hi)

\* the pre-fetched state info of a work item (packed = 0 when not found)
Prefetch(d, id) ==
    IF Has(d.states, id) THEN d.states[id] ELSE StateInfoCompact(0, 0, 0, 0)

\* the expansion of one work item by a worker: the moves, none for a terminal
ExpandMoves(info) ==
    IF check_terminal(info.packed) # ONGOING THEN <<>> ELSE generate_moves(info.packed)

RECURSIVE UpdateOps(_, _, _)
\* the state-info updates of a batch, for the items whose info was found
UpdateOps(d, work, i) ==
    IF i > Len(work) THEN <<>>
    ELSE LET info == Prefetch(d, work[i])
         IN  (IF info.packed = 0 THEN <<>>
              ELSE <<OpPut("states", work[i],
                           [info EXCEPT !.num_successors = Len(ExpandMoves(info))])>>)
             \o UpdateOps(d, work, i + 1)

\* every successor produced by the workers of a batch
BatchChildren(d, work) ==
    UNION { Range(ExpandMoves(Prefetch(d, work[i]))) :
              i \in { j \in 1..Len(work) : Prefetch(d, work[j]).packed # 0 } }

RECURSIVE AddNewStates(_, _, _, _)
\* add_new_state for each packed of news, from index i: the batch operations
AddNewStates(news, i, first_id, first_tail) ==
    IF i > Len(news) THEN <<>>
    ELSE << OpPut("states", first_id + (i - 1), StateInfoCompact(news[i], UNKNOWN, 0, 0)),
            OpPut("packed_to_id", news[i], first_id + (i - 1)),
            OpPut("queue", first_tail + (i - 1), first_id + (i - 1)) >>
         \o AddNewStates(news, i + 1, first_id, first_tail)

RECURSIVE BloomAddAll(_, _)
BloomAddAll(bloom, S) ==
    IF S = {} THEN bloom
    ELSE LET x == CHOOSE y \in S : TRUE IN BloomAddAll(BloomAdd(bloom, x), S \ {x})

\* the states to create for a batch: bloom-negative successors without a store
\* lookup, then the bloom-positive ones that batch_get_state_ids does not find
NewStatesOfBatch(d, bloom, children) ==
    LET definitely_new == IF ~bloom.present THEN {}
                          ELSE { c \in children : ~maybe_contains(bloom, c) }
        maybe_exists == children \ definitely_new
        from_check == { c \in maybe_exists : get_state_id(d, c) < 0 }
    IN  SortUnique(definitely_new) \o SortUnique(from_check)

EnumParBegin ==
    /\ pc = "enum_par"
    /\ IF m.queue_tail_ = 0 /\ m.queue_head_ = 0 /\ m.num_states_ = 0
       THEN LET r == get_or_create_state(db, m.num_states_, start_packed)
            IN  /\ db' = r[2]
                /\ m' = [m EXCEPT !.start_id_ = r[1], !.num_states_ = r[3]]
                /\ pc' = "enum_par_start"
       ELSE \* resumed: the bloom filter is not loaded
            /\ pc' = "enum_par_loop"
            /\ UNCHANGED <<db, m>>
    /\ UNCHANGED <<l, w, crashes, runs, timer, env>>

EnumParStartQueue ==
    /\ pc = "enum_par_start"
    /\ db' = Write(db, <<OpPut("queue", m.queue_tail_, m.start_id_)>>)
    /\ m' = [m EXCEPT !.queue_tail_ = @ + 1, !.enum_processed_ = 0,
                      !.bloom_filter_ = BloomAdd(NewBloom, start_packed)]
    /\ pc' = "enum_par_loop"
    /\ UNCHANGED <<l, w, crashes, runs, timer, env>>

\* one turn of the batch loop, up to and including db_->Write(batch)
EnumParBatch ==
    /\ pc = "enum_par_loop"
    /\ IF ~(m.queue_head_ < m.queue_tail_)
       THEN /\ pc' = "enum_par_final"
            /\ UNCHANGED <<db, m>>
       ELSE LET batch_end == Min(m.queue_head_ + PAR_BATCH_SIZE, m.queue_tail_)
                work == SelectSeqIdx(db.queue, m.queue_head_, batch_end)
            IN  IF work = <<>>
                THEN /\ m' = [m EXCEPT !.queue_head_ = batch_end]
                     /\ pc' = "enum_par_final"
                     /\ db' = db
                ELSE LET updates == UpdateOps(db, work, 1)
                         news == NewStatesOfBatch(db, m.bloom_filter_, BatchChildren(db, work))
                         batch == updates \o AddNewStates(news, 1, m.num_states_, m.queue_tail_)
                     IN  /\ db' = Write(db, batch)
                         /\ m' = [m EXCEPT
                                  !.num_states_ = @ + Len(news),
                                  !.queue_tail_ = @ + Len(news),
                                  !.queue_head_ = batch_end,
                                  !.enum_processed_ = @ + Len(updates),
                                  !.bloom_filter_ = IF ~@.present THEN @
                                                    ELSE BloomAddAll(@, Range(news))]
                         /\ pc' = "enum_par_save"
    /\ UNCHANGED <<l, w, crashes, runs, timer, env>>

\* the end of the turn: save_metadata()
EnumParSave ==
    /\ pc = "enum_par_save"
    /\ db' = save_metadata(db, m)
    /\ pc' = "enum_par_loop"
    /\ UNCHANGED <<m, l, w, crashes, runs, timer, env>>

\* after the loop: the final save_metadata(); the bloom filter is dropped
EnumParFinal ==
    /\ pc = "enum_par_final"
    /\ db' = save_metadata(db, m)
    /\ m' = [m EXCEPT !.bloom_filter_ = NoBloom]
    /\ pc' = "enum_done"
    /\ UNCHANGED <<l, w, crashes, runs, timer, env>>

EnumPar ==
    \/ EnumParBegin \/ EnumParStartQueue \/ EnumParBatch \/ EnumParSave
    \/ EnumParFinal

-----------------------------------------------------------------------------
(* Phase 2: build_predecessors_streaming.  One producer thread iterates    *)
(* the states column family into a ring buffer; num_threads_ workers take  *)
(* items from it, collect (successor, predecessor) pairs in a thread-local *)
(* map and flush the map to the predecessors column family.                *)

\* MAX_BUFFER_ENTRIES (1000000 in the source), here scaled
MAX_BUFFER_ENTRIES == 2

\* QUEUE_SIZE of the ring buffer (100000 in the source), here scaled
QUEUE_SIZE == 2

\* the number of thread shards that get_predecessors reads
NUM_SHARDS == 16

\* the key of a predecessor list written by worker t: id bytes + thread byte
ShardKey(succ_id, t) == <<succ_id, t>>

\* the 4-byte key written by add_predecessor
LegacyKey(succ_id) == <<succ_id>>

RECURSIVE ReadShards(_, _, _)
ReadShards(d, state_id, t) ==
    IF t >= NUM_SHARDS THEN <<>>
    ELSE (IF Has(d.predecessors, ShardKey(state_id, t))
          THEN d.predecessors[ShardKey(state_id, t)] ELSE <<>>)
         \o ReadShards(d, state_id, t + 1)

\* get_predecessors: the 16 shard values, then the legacy value, concatenated
get_predecessors(d, state_id) ==
    ReadShards(d, state_id, 0)
    \o (IF Has(d.predecessors, LegacyKey(state_id))
        THEN d.predecessors[LegacyKey(state_id)] ELSE <<>>)

\* WorkItem
WorkItem(id, packed) == [id |-> id, packed |-> packed]

RECURSIVE IterItems(_, _, _)
\* what the producer's iterator yields: the states in key order
IterItems(d, keys, i) ==
    IF i > Len(keys) THEN <<>>
    ELSE <<WorkItem(keys[i], d.states[keys[i]].packed)>> \o IterItems(d, keys, i + 1)

\* a worker thread at the top of its loop, with an empty local_preds
BuildWorker ==
    [ pc |-> "idle", my_read |-> 0, local_preds |-> EmptyCF, local_pred_count |-> 0 ]

\* load_packed_to_id_cache, the shared counters, the threads are started
BuildBegin ==
    /\ pc = "build_preds"
    /\ l' = [ packed_to_id_cache_ |-> db.packed_to_id,
              atomic_enum_processed_ |-> 0,
              work_queue |-> [i \in 0..(QUEUE_SIZE - 1) |-> WorkItem(0, 0)],
              queue_write |-> 0, queue_read |-> 0, producer_done |-> FALSE,
              it |-> IterItems(db, SortKeys(DOMAIN db.states), 1) ]
    /\ w' = [t \in 0..(m.num_threads_ - 1) |-> BuildWorker]
    /\ pc' = "build_run"
    /\ UNCHANGED <<db, m, crashes, runs, timer, env>>

\* producer: the next state goes into the ring buffer when there is room
ProducerPush ==
    /\ pc = "build_run"
    /\ ~l.producer_done
    /\ l.queue_write < Len(l.it)
    /\ l.queue_write - l.queue_read < QUEUE_SIZE
    /\ l' = [l EXCEPT !.work_queue[l.queue_write % QUEUE_SIZE] = l.it[l.queue_write + 1],
                      !.queue_write = @ + 1]
    /\ UNCHANGED <<db, m, pc, w, crashes, runs, timer, env>>

\* a producer that ends without storing producer_done
ProducerDone_flag_not_stored ==
    /\ pc = "build_run"
    /\ ~l.producer_done
    /\ l.queue_write = Len(l.it)
    /\ UNCHANGED <<db, m, pc, l, w, crashes, runs, timer, env>>

\* producer: the iterator is exhausted
ProducerDone ==
    /\ pc = "build_run"
    /\ ~l.producer_done
    /\ l.queue_write = Len(l.it)
    /\ l' = [l EXCEPT !.producer_done = TRUE]
    /\ UNCHANGED <<db, m, pc, w, crashes, runs, timer, env>>

\* worker: the compare-exchange on queue_read succeeds
BuildClaim(t) ==
    /\ pc = "build_run"
    /\ w[t].pc = "idle"
    /\ l.queue_read < l.queue_write
    /\ w' = [w EXCEPT ![t].pc = "claimed", ![t].my_read = l.queue_read]
    /\ l' = [l EXCEPT !.queue_read = @ + 1]
    /\ UNCHANGED <<db, m, pc, crashes, runs, timer, env>>

RECURSIVE AddPreds(_, _, _, _, _)
\* the successor loop of a worker: local_preds[cache id].push_back(item.id)
AddPreds(lp, cache, moves, i, item_id) ==
    IF i > Len(moves) THEN lp
    ELSE AddPreds(IF Has(cache, moves[i])
                  THEN PutKV(lp, cache[moves[i]],
                             Append(IF Has(lp, cache[moves[i]]) THEN lp[cache[moves[i]]]
                                    ELSE <<>>, item_id))
                  ELSE lp,
                  cache, moves, i + 1, item_id)

RECURSIVE CountFound(_, _, _)
\* how many successors of the item were found in the cache
CountFound(cache, moves, i) ==
    IF i > Len(moves) THEN 0
    ELSE (IF Has(cache, moves[i]) THEN 1 ELSE 0) + CountFound(cache, moves, i + 1)

\* flush_buffer of worker t: one Put per successor, under key (succ_id, t)
flush_buffer(d, lp, t) ==
    [d EXCEPT !.predecessors =
        [k \in (DOMAIN @) \cup { ShardKey(s, t) : s \in DOMAIN lp } |->
            IF Len(k) = 2 /\ k[2] = t /\ k[1] \in DOMAIN lp THEN lp[k[1]] ELSE @[k]]]

\* what a worker can read through its reference into the ring: item.packed is
\* read first, before or after the producer has overwritten the slot; item.id
\* is read afterwards
ItemReads(ll, my_read) ==
    LET slot == ll.work_queue[my_read % QUEUE_SIZE]
        own == ll.it[my_read + 1]
    IN  { WorkItem(slot.id, pk) : pk \in {own.packed, slot.packed} }

\* worker: the body of the loop for the claimed item, up to the flush of a
\* full buffer
BuildProcess(t) ==
    /\ pc = "build_run"
    /\ w[t].pc = "claimed"
    /\ \E item \in ItemReads(l, w[t].my_read) :
         LET moves == ExpandMoves(item)
             lp == AddPreds(w[t].local_preds, l.packed_to_id_cache_, moves, 1, item.id)
             cnt == w[t].local_pred_count + CountFound(l.packed_to_id_cache_, moves, 1)
         IN  IF cnt >= MAX_BUFFER_ENTRIES
             THEN /\ db' = flush_buffer(db, lp, t)
                  /\ w' = [w EXCEPT ![t].local_preds = EmptyCF,
                                    ![t].local_pred_count = 0, ![t].pc = "idle"]
             ELSE /\ db' = db
                  /\ w' = [w EXCEPT ![t].local_preds = lp,
                                    ![t].local_pred_count = cnt, ![t].pc = "idle"]
    /\ l' = [l EXCEPT !.atomic_enum_processed_ = @ + 1]
    /\ UNCHANGED <<m, pc, crashes, runs, timer, env>>

\* a worker that leaves its loop without the final flush
BuildExit_without_final_flush(t) ==
    /\ pc = "build_run"
    /\ w[t].pc = "idle"
    /\ l.queue_read >= l.queue_write
    /\ l.producer_done
    /\ w' = [w EXCEPT ![t].pc = "done"]
    /\ UNCHANGED <<db, m, pc, l, crashes, runs, timer, env>>

\* worker: nothing to take and the producer is done: final flush, exit
BuildExit(t) ==
    /\ pc = "build_run"
    /\ w[t].pc = "idle"
    /\ l.queue_read >= l.queue_write
    /\ l.producer_done
    /\ db' = flush_buffer(db, w[t].local_preds, t)
    /\ w' = [w EXCEPT ![t].local_preds = EmptyCF, ![t].local_pred_count = 0,
                      ![t].pc = "done"]
    /\ UNCHANGED <<m, pc, l, crashes, runs, timer, env>>

\* main thread: producer.join(), workers joined, the cache is cleared
BuildJoin ==
    /\ pc = "build_run"
    /\ l.producer_done
    /\ \A t \in DOMAIN w : w[t].pc = "done"
    /\ pc' = "build_done"
    /\ l' = NoLocals
    /\ w' = NoWorkers
    /\ UNCHANGED <<db, m, crashes, runs, timer, env>>

BuildPredecessorsDone == PhaseDone("build_done", MARKING_TERMINALS)

BuildPredecessors ==
    \/ BuildBegin \/ ProducerPush \/ ProducerDone
    \/ \E t \in DOMAIN w : BuildClaim(t) \/ BuildProcess(t) \/ BuildExit(t)
    \/ BuildJoin

-----------------------------------------------------------------------------
(* Phase 3: mark_terminals (one thread) and mark_terminals_parallel (more  *)
(* than one thread: an iterator scan of the states with a write batch and  *)
(* a persisted cursor).                                                    *)

\* mark_terminals_parallel: CHECKPOINT_INTERVAL (1000000 in the source), scaled
MARK_CHECKPOINT_INTERVAL == 3

\* mark_terminals_parallel: BATCH_SIZE (10000 in the source), scaled
MARK_BATCH_SIZE == 2

\* the classification of one state by either marker:
\* <<info after, changed, wins counted, losses counted>>
MarkInfo(info) ==
    LET gr == check_terminal(info.packed)
        wtm == white_to_move(info.packed)
    IN  IF gr = WHITE_WINS
        THEN (IF wtm THEN <<[info EXCEPT !.result = WIN], TRUE, 1, 0>>
                     ELSE <<[info EXCEPT !.result = LOSS], TRUE, 0, 1>>)
        ELSE IF gr = BLACK_WINS
        THEN (IF ~wtm THEN <<[info EXCEPT !.result = WIN], TRUE, 1, 0>>
                      ELSE <<[info EXCEPT !.result = LOSS], TRUE, 0, 1>>)
        ELSE IF info.num_successors = 0
        THEN (IF generate_moves(info.packed) = <<>>
              THEN <<[info EXCEPT !.result = LOSS], TRUE, 0, 1>>
              ELSE <<[info EXCEPT !.num_successors = Len(generate_moves(info.packed))],
                     TRUE, 0, 0>>)
        ELSE <<info, FALSE, 0, 0>>

MarkSeqBegin ==
    /\ pc = "mark_seq"
    /\ l' = [id |-> 0]
    /\ pc' = "mark_seq_loop"
    /\ UNCHANGED <<db, m, w, crashes, runs, timer, env>>

\* one turn of the for loop of mark_terminals, or its end
MarkSeqStep ==
    /\ pc = "mark_seq_loop"
    /\ IF l.id < m.num_states_
       THEN /\ IF Has(db.states, l.id)
               THEN LET r == MarkInfo(db.states[l.id])
                    IN  /\ db' = IF r[2] THEN Write(db, <<OpPut("states", l.id, r[1])>>)
                                 ELSE db
                        /\ m' = [m EXCEPT !.num_wins_ = @ + r[3],
                                          !.num_losses_ = @ + r[4]]
               ELSE UNCHANGED <<db, m>>
            /\ l' = [l EXCEPT !.id = @ + 1]
            /\ pc' = pc
       ELSE /\ pc' = "mark_done"
            /\ l' = NoLocals
            /\ UNCHANGED <<db, m>>
    /\ UNCHANGED <<w, crashes, runs, timer, env>>

MarkSeq == MarkSeqBegin \/ MarkSeqStep

RECURSIVE SeekFrom(_, _)
\* Iterator::Seek(start_key): the keys not below start_key, in key order
SeekFrom(keys, start_key) ==
    IF keys = <<>> THEN <<>>
    ELSE IF KeyLess(Head(keys), start_key) THEN SeekFrom(Tail(keys), start_key)
    ELSE keys

RECURSIVE IterStates(_, _, _)
\* what an iterator over the states yields: key and value, as of its creation
IterStates(d, keys, i) ==
    IF i > Len(keys) THEN <<>>
    ELSE <<[id |-> keys[i], info |-> d.states[keys[i]]]>> \o IterStates(d, keys, i + 1)

\* entry: the persisted cursor is loaded, the iterator is positioned on it
MarkParBegin ==
    /\ pc = "mark_par"
    /\ LET start_id == MetaGet(db, "terminal_checkpoint", 0)
           start_key == start_id % (ByteBase ^ KeyBytes)
       IN  l' = [ it |-> IterStates(db, SeekFrom(SortKeys(DOMAIN db.states), start_key), 1),
                  i |-> 1, local_wins |-> 0, local_losses |-> 0,
                  processed |-> start_id, batch |-> <<>>, batch_count |-> 0 ]
    /\ pc' = "mark_par_loop"
    /\ UNCHANGED <<db, m, w, crashes, runs, timer, env>>

\* one turn of the while loop up to the checkpoint test; the 60 seconds of
\* the time test may or may not have passed
MarkParStep ==
    /\ pc = "mark_par_loop"
    /\ l.i <= Len(l.it)
    /\ LET r == MarkInfo(l.it[l.i].info)
           batch1 == IF r[2] THEN Append(l.batch, OpPut("states", l.it[l.i].id, r[1]))
                     ELSE l.batch
           count1 == IF r[2] THEN l.batch_count + 1 ELSE l.batch_count
           full == count1 >= MARK_BATCH_SIZE
           processed1 == l.processed + 1
       IN  /\ db' = IF full THEN Write(db, batch1) ELSE db
           /\ \E time_for_checkpoint \in {FALSE, timer < MaxTimer} :
                /\ timer' = IF time_for_checkpoint THEN timer + 1 ELSE timer
                /\ l' = [l EXCEPT !.local_wins = @ + r[3], !.local_losses = @ + r[4],
                                  !.processed = processed1,
                                  !.batch = IF full THEN <<>> ELSE batch1,
                                  !.batch_count = IF full THEN 0 ELSE count1,
                                  !.i = @ + 1]
                /\ pc' = IF processed1 % MARK_CHECKPOINT_INTERVAL = 0 \/ time_for_checkpoint
                         THEN "mark_par_ckpt" ELSE "mark_par_loop"
    /\ UNCHANGED <<m, w, crashes, runs, env>>

\* checkpoint, first half: the pending batch is written
MarkParCheckpointFlush ==
    /\ pc = "mark_par_ckpt"
    /\ db' = IF l.batch_count > 0 THEN Write(db, l.batch) ELSE db
    /\ l' = [l EXCEPT !.batch = <<>>, !.batch_count = 0]
    /\ pc' = "mark_par_ckpt_put"
    /\ UNCHANGED <<m, w, crashes, runs, timer, env>>

\* checkpoint, second half: the cursor (processed) is persisted
MarkParCheckpointPut ==
    /\ pc = "mark_par_ckpt_put"
    /\ db' = Write(db, <<OpPut("metadata", "terminal_checkpoint", l.processed)>>)
    /\ pc' = "mark_par_loop"
    /\ UNCHANGED <<m, l, w, crashes, runs, timer, env>>

\* after the loop: the remaining batch is written
MarkParFinalWrite ==
    /\ pc = "mark_par_loop"
    /\ l.i > Len(l.it)
    /\ db' = IF l.batch_count > 0 THEN Write(db, l.batch) ELSE db
    /\ l' = [l EXCEPT !.batch = <<>>, !.batch_count = 0]
    /\ pc' = "mark_par_clear"
    /\ UNCHANGED <<m, w, crashes, runs, timer, env>>

\* the cursor is deleted, the counters are taken over
MarkParClear ==
    /\ pc = "mark_par_clear"
    /\ db' = Write(db, <<OpDel("metadata", "terminal_checkpoint")>>)
    /\ m' = [m EXCEPT !.num_wins_ = l.local_wins, !.num_losses_ = l.local_losses]
    /\ l' = NoLocals
    /\ pc' = "mark_done"
    /\ UNCHANGED <<w, crashes, runs, timer, env>>

MarkPar ==
    \/ MarkParBegin \/ MarkParStep \/ MarkParCheckpointFlush \/ MarkParCheckpointPut
    \/ MarkParFinalWrite \/ MarkParClear

MarkTerminalsDone == PhaseDone("mark_done", PROPAGATING)

-----------------------------------------------------------------------------
(* Phase 4: propagate.  The solved states are put on the queue; the worker *)
(* threads pop queue positions and update the predecessors, writing        *)
(* through a thread-local write batch; the progress thread persists a      *)
(* checkpoint; the remaining UNKNOWN states become DRAW.                   *)

\* LOCAL_BATCH_SIZE of a propagation worker (1000 in the source), here scaled
LOCAL_BATCH_SIZE == 3

RECURSIVE SeedOps(_, _, _)
\* the queue entries of the initial scan: one per state that is not UNKNOWN
SeedOps(items, i, tail) ==
    IF i > Len(items) THEN <<>>
    ELSE IF items[i].info.result # UNKNOWN
         THEN <<OpPut("queue", tail, items[i].id)>> \o SeedOps(items, i + 1, tail + 1)
         ELSE SeedOps(items, i + 1, tail)

\* NUM_LOCKS, the number of stripe locks (65536 in the source), here scaled
NUM_LOCKS == 2

\* a worker thread before its first pop, with an empty local_batch; locks are
\* the indices of the state_locks it holds
PropWorker ==
    [ pc |-> "pop", my_pos |-> 0, child_result |-> UNKNOWN, preds |-> <<>>, pi |-> 1,
      local_batch |-> <<>>, local_batch_count |-> 0, locks |-> {} ]

\* a lock_guard that is left without releasing its mutex
Unlock_lock_kept(worker, lock_idx) == worker

\* the lock_guard of one loop iteration goes out of scope, at the end of the
\* body or at a continue
Unlock(worker, lock_idx) == [worker EXCEPT !.locks = @ \ {lock_idx}]

\* entry: the checkpoint is looked up; without one the queue is seeded; the
\* atomics are set up and the threads are started
PropBegin ==
    /\ pc = "propagate"
    /\ LET resumed == Has(db.metadata, "prop_checkpoint")
           seeds == SeedOps(IterStates(db, SortKeys(DOMAIN db.states), 1), 1, 0)
           prop_head == IF resumed THEN db.metadata["prop_checkpoint"][1] ELSE 0
           prop_tail == IF resumed THEN db.metadata["prop_checkpoint"][2] ELSE Len(seeds)
       IN  /\ db' = IF resumed THEN db ELSE Write(db, seeds)
           /\ l' = [ atomic_prop_head |-> prop_head, atomic_prop_tail |-> prop_tail,
                     atomic_propagated |-> 0, atomic_wins |-> 0, atomic_losses |-> 0 ]
    /\ w' = [t \in 0..(m.num_threads_ - 1) |-> PropWorker]
    /\ pc' = "prop_wave"
    /\ UNCHANGED <<m, crashes, runs, timer, env>>

\* worker: my_pos = atomic_prop_head.fetch_add(1)
PropPop(t) ==
    /\ pc = "prop_wave"
    /\ w[t].pc = "pop"
    /\ w' = [w EXCEPT ![t].my_pos = l.atomic_prop_head, ![t].pc = "check"]
    /\ l' = [l EXCEPT !.atomic_prop_head = @ + 1]
    /\ UNCHANGED <<db, m, pc, crashes, runs, timer, env>>

\* worker: the tail is loaded; at or beyond it the worker writes its batch
\* and leaves
PropCheck(t) ==
    /\ pc = "prop_wave"
    /\ w[t].pc = "check"
    /\ IF w[t].my_pos >= l.atomic_prop_tail
       THEN /\ db' = IF w[t].local_batch_count > 0 THEN Write(db, w[t].local_batch) ELSE db
            /\ w' = [w EXCEPT ![t].pc = "done"]
       ELSE /\ db' = db
            /\ w' = [w EXCEPT ![t].pc = "read"]
    /\ UNCHANGED <<m, pc, l, crashes, runs, timer, env>>

\* worker: the queue entry, the state info and the predecessors are read
\* from the store; a failed read skips the position
PropRead(t) ==
    /\ pc = "prop_wave"
    /\ w[t].pc = "read"
    /\ IF ~Has(db.queue, w[t].my_pos) \/ ~Has(db.states, db.queue[w[t].my_pos])
       THEN /\ w' = [w EXCEPT ![t].pc = "pop"]
            /\ l' = [l EXCEPT !.atomic_propagated = @ + 1]
       ELSE LET id == db.queue[w[t].my_pos]
                preds == get_predecessors(db, id)
            IN  /\ w' = [w EXCEPT ![t].child_result = db.states[id].result,
                                  ![t].preds = preds, ![t].pi = 1,
                                  ![t].pc = IF preds = <<>> THEN "end" ELSE "preds"]
                /\ l' = l
    /\ UNCHANGED <<db, m, pc, crashes, runs, timer, env>>

\* worker: the lock_guard of one predecessor: the thread waits until the
\* mutex state_locks[pred_id % NUM_LOCKS] is free and takes it
PropLock(t) ==
    /\ pc = "prop_wave"
    /\ w[t].pc = "preds"
    /\ LET lock_idx == w[t].preds[w[t].pi] % NUM_LOCKS
       IN  /\ \A u \in DOMAIN w : lock_idx \notin w[u].locks
           /\ w' = [w EXCEPT ![t].locks = @ \cup {lock_idx}, ![t].pc = "locked"]
    /\ UNCHANGED <<db, m, pc, l, crashes, runs, timer, env>>

\* worker at position `at`: the body of the loop for one predecessor: read
\* from the store, updated, written to the local batch; the lock is released
PropPredAt(t, at) ==
    /\ pc = "prop_wave"
    /\ w[t].pc = at
    /\ LET pred_id == w[t].preds[w[t].pi]
           next == Unlock([w[t] EXCEPT !.pi = @ + 1,
                                       !.pc = IF w[t].pi = Len(w[t].preds)
                                              THEN "end" ELSE "preds"],
                          pred_id % NUM_LOCKS)
           queue_put == OpPut("queue", l.atomic_prop_tail, pred_id)
       IN  IF ~Has(db.states, pred_id) \/ db.states[pred_id].result # UNKNOWN
           THEN /\ w' = [w EXCEPT ![t] = next]
                /\ l' = l
           ELSE LET pred_info == db.states[pred_id]
                IN  IF w[t].child_result = LOSS
                    THEN /\ w' = [w EXCEPT ![t] =
                                   [next EXCEPT !.local_batch = @ \o
                                       <<queue_put,
                                         OpPut("states", pred_id, [pred_info EXCEPT !.result = WIN])>>,
                                     !.local_batch_count = @ + 2]]
                         /\ l' = [l EXCEPT !.atomic_wins = @ + 1, !.atomic_prop_tail = @ + 1]
                    ELSE IF w[t].child_result = WIN
                    THEN LET ws == pred_info.winning_succs + 1
                         IN  IF ws >= pred_info.num_successors
                             THEN /\ w' = [w EXCEPT ![t] =
                                            [next EXCEPT !.local_batch = @ \o
                                                <<queue_put,
                                                  OpPut("states", pred_id,
                                                        [pred_info EXCEPT !.winning_succs = ws,
                                                                          !.result = LOSS])>>,
                                              !.local_batch_count = @ + 2]]
                                  /\ l' = [l EXCEPT !.atomic_losses = @ + 1,
                                                    !.atomic_prop_tail = @ + 1]
                             ELSE /\ w' = [w EXCEPT ![t] =
                                            [next EXCEPT !.local_batch = @ \o
                                                <<OpPut("states", pred_id,
                                                        [pred_info EXCEPT !.winning_succs = ws])>>,
                                              !.local_batch_count = @ + 1]]
                                  /\ l' = l
                    ELSE \* the child is neither WIN nor LOSS: nothing changes, the
                         \* info is written back when winning_succs > 0
                         /\ w' = [w EXCEPT ![t] =
                                   IF pred_info.winning_succs > 0
                                   THEN [next EXCEPT !.local_batch = @ \o
                                            <<OpPut("states", pred_id, pred_info)>>,
                                          !.local_batch_count = @ + 1]
                                   ELSE next]
                         /\ l' = l
    /\ UNCHANGED <<db, m, pc, crashes, runs, timer, env>>

\* worker: one predecessor, under its stripe lock, as one step
PropPred(t) == PropPredAt(t, "preds")

\* worker: one predecessor, after its lock was taken in a step of its own
PropPredLocked(t) == PropPredAt(t, "locked")

\* worker: the end of the turn: count, write the local batch when it is full
PropEnd(t) ==
    /\ pc = "prop_wave"
    /\ w[t].pc = "end"
    /\ l' = [l EXCEPT !.atomic_propagated = @ + 1]
    /\ IF w[t].local_batch_count >= LOCAL_BATCH_SIZE
       THEN /\ db' = Write(db, w[t].local_batch)
            /\ w' = [w EXCEPT ![t].local_batch = <<>>, ![t].local_batch_count = 0,
                              ![t].pc = "pop"]
       ELSE /\ db' = db
            /\ w' = [w EXCEPT ![t].pc = "pop"]
    /\ UNCHANGED <<m, pc, crashes, runs, timer, env>>

\* progress thread: 60 seconds have passed: the checkpoint is persisted
PropCheckpoint ==
    /\ pc = "prop_wave"
    /\ timer < MaxTimer
    /\ db' = Write(db, <<OpPut("metadata", "prop_checkpoint",
                               <<l.atomic_prop_head, l.atomic_prop_tail,
                                 l.atomic_propagated>>)>>)
    /\ timer' = timer + 1
    /\ UNCHANGED <<m, pc, l, w, crashes, runs, env>>

\* main thread: the workers are joined, the counters are taken over, the
\* final checkpoint is written
PropJoin ==
    /\ pc = "prop_wave"
    /\ \A t \in DOMAIN w : w[t].pc = "done"
    /\ m' = [m EXCEPT !.num_wins_ = @ + l.atomic_wins,
                      !.num_losses_ = @ + l.atomic_losses]
    /\ db' = Write(db, <<OpPut("metadata", "prop_checkpoint",
                               <<l.atomic_prop_head, l.atomic_prop_tail,
                                 l.atomic_propagated>>)>>)
    /\ w' = NoWorkers
    /\ l' = NoLocals
    /\ pc' = "prop_draw"
    /\ UNCHANGED <<crashes, runs, timer, env>>

RECURSIVE DrawOps(_, _)
\* the draw pass: every state that the iterator shows as UNKNOWN becomes DRAW
DrawOps(items, i) ==
    IF i > Len(items) THEN <<>>
    ELSE (IF items[i].info.result = UNKNOWN
          THEN <<OpPut("states", items[i].id, [items[i].info EXCEPT !.result = DRAW])>>
          ELSE <<>>)
         \o DrawOps(items, i + 1)

\* main thread: the draw pass and its write batch
PropDraw ==
    /\ pc = "prop_draw"
    /\ LET batch == DrawOps(IterStates(db, SortKeys(DOMAIN db.states), 1), 1)
       IN  /\ db' = IF Len(batch) > 0 THEN Write(db, batch) ELSE db
           /\ m' = [m EXCEPT !.num_draws_ = @ + Len(batch)]
    /\ pc' = "prop_clear"
    /\ UNCHANGED <<l, w, crashes, runs, timer, env>>

\* main thread: the checkpoint is deleted
PropClear ==
    /\ pc = "prop_clear"
    /\ db' = Write(db, <<OpDel("metadata", "prop_checkpoint")>>)
    /\ pc' = "prop_done"
    /\ UNCHANGED <<m, l, w, crashes, runs, timer, env>>

Propagate ==
    \/ PropBegin
    \/ \E t \in DOMAIN w : PropPop(t) \/ PropCheck(t) \/ PropRead(t)
                           \/ PropPred(t) \/ PropEnd(t)
    \/ PropCheckpoint \/ PropJoin \/ PropDraw \/ PropClear

\* propagate_parallel with the taking of a stripe lock as a step
PropagateLocks ==
    \/ PropBegin
    \/ \E t \in DOMAIN w : PropPop(t) \/ PropCheck(t) \/ PropRead(t)
                           \/ PropLock(t) \/ PropPredLocked(t) \/ PropEnd(t)
    \/ PropCheckpoint \/ PropJoin \/ PropDraw \/ PropClear

PropagateDone == PhaseDone("prop_done", COMPLETE)

-----------------------------------------------------------------------------
(* Games and specifications.                                               *)

\* three positions in a chain: both moves of the start lead to 2, the only
\* move of 2 leads to 3, where black has the bobail on its home row
Chain3 ==
    Game(1, {1, 3},
         [p \in 1..3 |-> IF p = 3 THEN BLACK_WINS ELSE ONGOING],
         [p \in 1..3 |-> CASE p = 1 -> <<2, 2>> [] p = 2 -> <<3>> [] OTHER -> <<>>])

\* three positions: the start moves to 2, where the mover has lost, and to
\* 3, where the mover has won
Fork3 ==
    Game(1, {1},
         [p \in 1..3 |-> CASE p = 2 -> WHITE_WINS [] p = 3 -> BLACK_WINS [] OTHER -> ONGOING],
         [p \in 1..3 |-> IF p = 1 THEN <<2, 3>> ELSE <<>>])

\* four positions: the start moves to 2, where the mover has won, and to 3;
\* 3 and 4 move to each other for ever
Loop4 ==
    Game(1, {1, 4},
         [p \in 1..4 |-> IF p = 2 THEN BLACK_WINS ELSE ONGOING],
         [p \in 1..4 |-> CASE p = 1 -> <<2, 3>> [] p = 3 -> <<4>> [] p = 4 -> <<3>>
                          [] OTHER -> <<>>])

\* six positions: the start moves to 2 and to 3, where the mover has won; a
\* chain 2, 4, 5, 6 leads back to 3
Back6 ==
    Game(1, {1, 4, 6},
         [p \in 1..6 |-> IF p = 3 THEN BLACK_WINS ELSE ONGOING],
         [p \in 1..6 |-> CASE p = 1 -> <<2, 3>> [] p = 2 -> <<4>> [] p = 4 -> <<5>>
                          [] p = 5 -> <<6>> [] p = 6 -> <<3>> [] OTHER -> <<>>])

\* three positions: the start moves to 3 and to 2, in this order, and 2 moves
\* to 3, where black has the bobail on its home row
Join3 ==
    Game(1, {1, 3},
         [p \in 1..3 |-> IF p = 3 THEN BLACK_WINS ELSE ONGOING],
         [p \in 1..3 |-> CASE p = 1 -> <<3, 2>> [] p = 2 -> <<3>> [] OTHER -> <<>>])

\* the runs of the program on one database, with kills and restarts
Init ==
    /\ Fresh
    /\ env \in { [game |-> Chain3, threads |-> 1..MaxThreads],
                 [game |-> Game8, threads |-> {1}],
                 [game |-> Loop4, threads |-> {1}],
                 [game |-> Back6, threads |-> {1}] }

\* solve(): every phase function and the end of every block
Solve ==
    \/ SolveDispatch
    \/ EnumSeq \/ EnumPar \/ EnumerateDone
    \/ BuildPredecessors \/ BuildPredecessorsDone
    \/ MarkSeq \/ MarkPar \/ MarkTerminalsDone
    \/ Propagate \/ PropagateDone

Next == Open \/ Solve \/ Close \/ Crash

Spec == Init /\ [][Next]_vars

-----------------------------------------------------------------------------
(* The query interface on an open database.                                *)

\* get_result after canonicalize and pack_state: the id is looked up, then
\* the state info; UNKNOWN when either is missing
lookup_result(d, packed) ==
    LET id == get_state_id(d, packed)
    IN  IF id >= 0 /\ Has(d.states, id) THEN d.states[id].result ELSE UNKNOWN

\* Move{}: the move returned for a state without legal moves
NoMove == 0

\* the test of get_best_move on one move, as the loop makes it
TakesMove(my_result, opp_result) ==
    \/ my_result = WIN /\ opp_result = LOSS
    \/ my_result = DRAW /\ opp_result = DRAW
    \/ my_result = LOSS /\ (opp_result = DRAW \/ opp_result = WIN)

\* get_best_move that returns the first legal move, whatever the results
get_best_move_first_move(d, s) ==
    IF generate_moves(s) = <<>> THEN NoMove ELSE 1

\* get_best_move: the place in generate_moves(s) of the move returned
get_best_move(d, s) ==
    LET my_result == lookup_result(d, s)
        moves == generate_moves(s)
        taken == { i \in 1..Len(moves) : TakesMove(my_result, lookup_result(d, moves[i])) }
    IN  IF moves = <<>> THEN NoMove
        ELSE IF taken # {} THEN CHOOSE i \in taken : \A j \in taken : i <= j
        ELSE 1

\* the main program, after solve(): get_result and get_best_move for a state
GetBestMove ==
    /\ pc = "solve_return"
    /\ \E s \in DOMAIN game.moves :
         l' = [ state |-> s, result |-> lookup_result(db, s), move |-> get_best_move(db, s) ]
    /\ UNCHANGED <<db, m, pc, w, crashes, runs, timer, env>>

\* six positions: 3 and 6 have the bobail on a home row and still have legal
\* moves; at 3 the mover has lost, at 6 the mover has won; 4 and 5 form a cycle
Goal6 ==
    Game(1, {1, 3, 5, 6},
         [p \in 1..6 |-> CASE p = 3 -> BLACK_WINS [] p = 6 -> WHITE_WINS [] OTHER -> ONGOING],
         [p \in 1..6 |-> CASE p = 1 -> <<2, 4>> [] p = 2 -> <<5, 3>> [] p = 3 -> <<2, 4>>
                          [] p = 4 -> <<5, 6>> [] p = 5 -> <<4>> [] p = 6 -> <<4>>])

\* uninterrupted runs: the process is never killed
InitRun ==
    /\ Fresh
    /\ env \in { [game |-> Chain3, threads |-> 1..MaxThreads],
                 [game |-> Fork3, threads |-> 1..MaxThreads],
                 [game |-> Join3, threads |-> {MaxThreads}],
                 [game |-> Game8, threads |-> {1}] }

NextRun == Open \/ Solve \/ Close

SpecRun == InitRun /\ [][NextRun]_vars

\* uninterrupted runs with queries between solve() and close()
InitQuery ==
    /\ Fresh
    /\ env \in { [game |-> Chain3, threads |-> 1..MaxThreads],
                 [game |-> Fork3, threads |-> 1..MaxThreads],
                 [game |-> Game8, threads |-> {1}],
                 [game |-> Goal6, threads |-> {1}] }

NextQuery == Open \/ Solve \/ GetBestMove \/ Close

SpecQuery == InitQuery /\ [][NextQuery]_vars

-----------------------------------------------------------------------------
(* A store that fails one request.  Every db_->Write of the solver drops   *)
(* the returned status, and a failed db_->Get in the propagation worker is *)
(* answered by `continue`.                                                 *)

\* the store has not failed
NoFault == [ failed |-> FALSE, run |-> 0, phase |-> NOT_STARTED ]

\* the store has failed a request of run `runs` while phase_ was m.phase_
FaultNow == [ failed |-> TRUE, run |-> runs, phase |-> m.phase_ ]

\* one request fails: the Write of the last batch of enumerate_states, whose
\* status nobody looks at; or the Get of a queue entry in a propagation
\* worker, which counts the position as propagated and goes on
StoreFails ==
    /\ ~env.fault.failed
    /\ env' = [env EXCEPT !.fault = FaultNow]
    /\ \/ /\ pc = "enum_seq_final"
          /\ l.batch_count > 0
          /\ pc' = "enum_done"
          /\ l' = NoLocals
          /\ UNCHANGED <<db, m, w, crashes, runs, timer>>
       \/ /\ pc = "prop_wave"
          /\ \E t \in DOMAIN w :
               /\ w[t].pc = "read"
               /\ w' = [w EXCEPT ![t].pc = "pop"]
          /\ l' = [l EXCEPT !.atomic_propagated = @ + 1]
          /\ UNCHANGED <<db, m, pc, crashes, runs, timer>>

\* uninterrupted runs on a store that may fail once
InitFault ==
    /\ Fresh
    /\ env \in { [game |-> Chain3, threads |-> 1..MaxThreads, fault |-> NoFault],
                 [game |-> Fork3, threads |-> {1}, fault |-> NoFault],
                 [game |-> Game8, threads |-> {1}, fault |-> NoFault] }

NextFault == Open \/ Solve \/ Close \/ StoreFails

SpecFault == InitFault /\ [][NextFault]_vars

-----------------------------------------------------------------------------
(* The board of the game adapter: states, packing, symmetries, and         *)
(* get_result on board states.                                             *)

BOARD_SIZE == 5

NUM_SQUARES == 25

PAWNS_PER_SIDE == 5

NUM_SYMMETRIES == 8

\* pack_state: the shift of the black pawns; the packed value is kept as the
\* pair <<packed >> 25, packed & 0x1FFFFFF>>
PawnBits == 25

\* pack_state: the width of the bobail square
BobailBits == 5

\* State: the pawns are the sets of the squares whose bit is set
State(wp, bp, bobail, wtm) ==
    [ white_pawns |-> wp, black_pawns |-> bp, bobail_sq |-> bobail, white_to_move |-> wtm ]

\* State::is_valid
is_valid(s) ==
    /\ Cardinality(s.white_pawns) = PAWNS_PER_SIDE
    /\ Cardinality(s.black_pawns) = PAWNS_PER_SIDE
    /\ s.white_pawns \cap s.black_pawns = {}
    /\ s.bobail_sq < NUM_SQUARES
    /\ s.bobail_sq \notin s.white_pawns
    /\ s.bobail_sq \notin s.black_pawns

\* State::row, State::col, State::square
row(sq) == sq \div BOARD_SIZE

col(sq) == sq % BOARD_SIZE

square(r, c) == r * BOARD_SIZE + c

RECURSIVE BitValue(_)
\* the value of a bitboard
BitValue(S) ==
    IF S = {} THEN 0
    ELSE LET sq == CHOOSE x \in S : TRUE IN 2 ^ sq + BitValue(S \ {sq})

\* pack_state: white pawns in bits 0-24, black pawns in bits 25-49, the
\* bobail square in bits 50-54, the side to move in bit 55
pack_state(s) ==
    << BitValue(s.black_pawns) + s.bobail_sq * 2 ^ PawnBits
         + (IF s.white_to_move THEN 1 ELSE 0) * 2 ^ (PawnBits + BobailBits),
       BitValue(s.white_pawns) >>

\* unpack_state with a 4-bit mask for the bobail square
unpack_state_narrow_bobail_mask(packed) ==
    State({ sq \in 0..(NUM_SQUARES - 1) : (packed[2] \div 2 ^ sq) % 2 = 1 },
          { sq \in 0..(NUM_SQUARES - 1) : ((packed[1] % 2 ^ PawnBits) \div 2 ^ sq) % 2 = 1 },
          (packed[1] \div 2 ^ PawnBits) % 2 ^ (BobailBits - 1),
          (packed[1] \div 2 ^ (PawnBits + BobailBits)) % 2 = 1)

\* unpack_state: the masks 0x1FFFFFF, 0x1FFFFFF after >> 25, 0x1F after >> 50,
\* and bit 55
unpack_state(packed) ==
    State({ sq \in 0..(NUM_SQUARES - 1) : (packed[2] \div 2 ^ sq) % 2 = 1 },
          { sq \in 0..(NUM_SQUARES - 1) : ((packed[1] % 2 ^ PawnBits) \div 2 ^ sq) % 2 = 1 },
          (packed[1] \div 2 ^ PawnBits) % 2 ^ BobailBits,
          (packed[1] \div 2 ^ (PawnBits + BobailBits)) % 2 = 1)

\* packed < best_packed on the 64-bit values
PackedLess(a, b) == a[1] < b[1] \/ (a[1] = b[1] /\ a[2] < b[2])

\* check_terminal(const State&)
check_terminal_state(s) ==
    IF row(s.bobail_sq) = 0 THEN WHITE_WINS
    ELSE IF row(s.bobail_sq) = BOARD_SIZE - 1 THEN BLACK_WINS
    ELSE ONGOING

\* apply_sym_coords: <<new row, new column>>
apply_sym_coords(r, c, sym) ==
    CASE sym = 0 -> <<r, c>>
      [] sym = 1 -> <<c, BOARD_SIZE - 1 - r>>
      [] sym = 2 -> <<BOARD_SIZE - 1 - r, BOARD_SIZE - 1 - c>>
      [] sym = 3 -> <<BOARD_SIZE - 1 - c, r>>
      [] sym = 4 -> <<r, BOARD_SIZE - 1 - c>>
      [] sym = 5 -> <<BOARD_SIZE - 1 - c, BOARD_SIZE - 1 - r>>
      [] sym = 6 -> <<BOARD_SIZE - 1 - r, c>>
      [] sym = 7 -> <<c, r>>
      [] OTHER -> <<r, c>>

\* symmetry_map[sym][sq], as init_symmetry fills it
symmetry_map(sym, sq) ==
    LET rc == apply_sym_coords(row(sq), col(sq), sym) IN square(rc[1], rc[2])

transform_bitboard(bb, sym) == { symmetry_map(sym, sq) : sq \in bb }

apply_symmetry(s, sym) ==
    State(transform_bitboard(s.white_pawns, sym), transform_bitboard(s.black_pawns, sym),
          symmetry_map(sym, s.bobail_sq), s.white_to_move)

RECURSIVE CanonicalizeFrom(_, _, _, _)
\* the loop of canonicalize from symmetry sym on
CanonicalizeFrom(s, sym, best, best_sym) ==
    IF sym >= NUM_SYMMETRIES THEN <<best, best_sym>>
    ELSE LET transformed == apply_symmetry(s, sym)
         IN  IF PackedLess(pack_state(transformed), pack_state(best))
             THEN CanonicalizeFrom(s, sym + 1, transformed, sym)
             ELSE CanonicalizeFrom(s, sym + 1, best, best_sym)

\* canonicalize that tries the reflections only
canonicalize_reflections_only(s) == CanonicalizeFrom(s, NUM_SYMMETRIES \div 2, s, 0)

\* canonicalize: <<canonical state, symmetry applied>>
canonicalize(s) == CanonicalizeFrom(s, 1, s, 0)

\* get_result without the canonicalization of its argument
get_result_not_canonicalized(d, s) == lookup_result(d, pack_state(s))

\* get_result
get_result(d, s) == lookup_result(d, pack_state(canonicalize(s)[1]))

\* the pawns of the input states: the starting rows; white advanced by a
\* row; black advanced by a row; a layout without any symmetry
PawnLayouts ==
    { <<0..4, 20..24>>, <<5..9, 20..24>>, <<0..4, 15..19>>,
      <<{0, 1, 2, 3, 9}, {15, 21, 22, 23, 24}>> }

\* the input states: every layout, the bobail on every free square, either
\* side to move
BoardStates ==
    { st \in { State(lay[1], lay[2], b, wtm) :
                 lay \in PawnLayouts, b \in 0..(NUM_SQUARES - 1), wtm \in BOOLEAN } :
        is_valid(st) }

RECURSIVE PackedSeq(_)
\* a set of packed values in increasing order
PackedSeq(S) ==
    IF S = {} THEN <<>>
    ELSE LET lo == CHOOSE x \in S : \A y \in S : x = y \/ PackedLess(x, y)
         IN  <<lo>> \o PackedSeq(S \ {lo})

\* the result that Phase 3 and the draw pass give to a state on its own
BoardResult(s) ==
    LET gr == check_terminal_state(s)
    IN  IF gr = WHITE_WINS THEN (IF s.white_to_move THEN WIN ELSE LOSS)
        ELSE IF gr = BLACK_WINS THEN (IF s.white_to_move THEN LOSS ELSE WIN)
        ELSE DRAW

\* a solved database that holds the canonical forms of the input states
\* with White to move
BoardDB ==
    LET registered == { canonicalize(st)[1] : st \in { t \in BoardStates : t.white_to_move } }
        reg == PackedSeq({ pack_state(c) : c \in registered })
        state_of(packed) == CHOOSE c \in registered : pack_state(c) = packed
    IN  [ EmptyDB EXCEPT
            !.packed_to_id = [ p \in Range(reg) |->
                                 (CHOOSE k \in 1..Len(reg) : reg[k] = p) - 1 ],
            !.states = [ id \in 0..(Len(reg) - 1) |->
                           StateInfoCompact(reg[id + 1],
                                            BoardResult(state_of(reg[id + 1])), 0, 0) ],
            !.metadata = [ k \in {"phase"} |-> COMPLETE ] ]

\* a caller holds a state of the board and an open solved database
InitBoard ==
    /\ db = BoardDB
    /\ m = NewSolver
    /\ pc = "board"
    /\ l = NoLocals
    /\ w = NoWorkers
    /\ crashes = 0
    /\ runs = 0
    /\ timer = 0
    /\ env \in { [state |-> st] : st \in BoardStates }

\* canonicalize(state)
Canonicalize ==
    /\ pc = "board"
    /\ LET c == canonicalize(env.state)
       IN  l' = [ canonical |-> c[1], sym |-> c[2] ]
    /\ pc' = "canonicalized"
    /\ UNCHANGED <<db, m, w, crashes, runs, timer, env>>

\* get_result(state)
GetResult ==
    /\ pc = "board"
    /\ l' = [ result |-> get_result(db, env.state) ]
    /\ pc' = "result"
    /\ UNCHANGED <<db, m, w, crashes, runs, timer, env>>

\* unpack_state(pack_state(state))
PackUnpack ==
    /\ pc = "board"
    /\ l' = [ packed |-> pack_state(env.state),
              unpacked |-> unpack_state(pack_state(env.state)) ]
    /\ pc' = "unpacked"
    /\ UNCHANGED <<db, m, w, crashes, runs, timer, env>>

NextBoard == Canonicalize \/ GetResult \/ PackUnpack

SpecBoard == InitBoard /\ [][NextBoard]_vars

-----------------------------------------------------------------------------
(* Vocabulary of the properties.                                           *)

\* the positions of the game
Positions == DOMAIN game.moves

Terminal(p) == check_terminal(p) # ONGOING

RECURSIVE Closure(_)
\* the positions reachable from S by legal moves from non-terminal positions
Closure(S) ==
    LET step == S \cup UNION { Range(generate_moves(p)) : p \in { q \in S : ~Terminal(q) } }
    IN  IF step = S THEN S ELSE Closure(step)

\* the canonical states reachable from the canonical starting position
ReachablePacked == Closure({start_packed})

\* the packed values of the stored states
StoredPacked == { db.states[id].packed : id \in DOMAIN db.states }

\* the stored result of a position, UNKNOWN when it is not registered
ResultOf(p) ==
    IF Has(db.packed_to_id, p) /\ Has(db.states, db.packed_to_id[p])
    THEN db.states[db.packed_to_id[p]].result
    ELSE UNKNOWN

\* the value of the persisted phase
PersistedPhase(d) == MetaGet(d, "phase", NOT_STARTED)

\* the first run of the program on a fresh database, never killed
Uninterrupted == crashes = 0 /\ runs = 1

\* for every registered p, states[packed_to_id[p]].packed = p
RegistryConsistent ==
    \A p \in DOMAIN db.packed_to_id :
        /\ Has(db.states, db.packed_to_id[p])
        /\ db.states[db.packed_to_id[p]].packed = p

\* the stored states are exactly the reachable ones, each under one id
EnumerationComplete ==
    /\ RegistryConsistent
    /\ DOMAIN db.packed_to_id = ReachablePacked
    /\ StoredPacked = ReachablePacked
    /\ Cardinality(DOMAIN db.states) = Cardinality(ReachablePacked)

\* every stored non-terminal state has its number of legal moves recorded
AllExpanded ==
    \A id \in DOMAIN db.states :
        LET p == db.states[id].packed
        IN  ~Terminal(p) => db.states[id].num_successors = Len(generate_moves(p))

\* every edge u -> v between stored states is in the predecessor index
PredecessorsComplete ==
    \A u \in DOMAIN db.packed_to_id :
        ~Terminal(u) =>
            \A v \in Range(generate_moves(u)) :
                Has(db.packed_to_id, v) =>
                    db.packed_to_id[u] \in Range(get_predecessors(db, db.packed_to_id[v]))

-----------------------------------------------------------------------------
(* C1: the results after Phase 4.                                          *)

\* solve() has finished Phase 4 in the first, never killed run
FinishedUninterrupted ==
    /\ Uninterrupted
    /\ m.phase_ = COMPLETE
    /\ pc \in {"solve", "solve_return"}

\* the stored result of a state with legal moves agrees with the stored
\* results of its successors
ResultConsistent(id) ==
    LET u == db.states[id].packed
        r == db.states[id].result
        succ == Range(generate_moves(u))
        some_loss == \E v \in succ : ResultOf(v) = LOSS
        all_win == \A v \in succ : ResultOf(v) = WIN
    IN  /\ (r = WIN) <=> some_loss
        /\ (r = LOSS) <=> all_win
        /\ (~some_loss /\ ~all_win) => r = DRAW

\* C1: when solve() has finished Phase 4 in an uninterrupted run on a
\* database whose enumeration and predecessor index are complete, every
\* stored non-terminal state with legal moves is WIN iff some move leads to
\* a LOSS state, LOSS iff every move leads to a WIN state, and DRAW otherwise
C1_ResultsConsistent ==
    (FinishedUninterrupted /\ EnumerationComplete /\ PredecessorsComplete) =>
        \A id \in DOMAIN db.states :
            (~Terminal(db.states[id].packed)
             /\ generate_moves(db.states[id].packed) # <<>>) => ResultConsistent(id)

-----------------------------------------------------------------------------
(* C2: the registry.                                                       *)

\* C2: while the solver runs, every registered packed state p satisfies
\* states[packed_to_id[p]].packed = p, the stored ids are a contiguous range
\* from 0, and no id is given to two packed states
C2_RegistryBijection ==
    pc # "closed" =>
        /\ RegistryConsistent
        /\ DOMAIN db.states = 0 .. (Cardinality(DOMAIN db.states) - 1)
        /\ \A p, q \in DOMAIN db.packed_to_id :
               db.packed_to_id[p] = db.packed_to_id[q] => p = q

-----------------------------------------------------------------------------
(* C3: the closure of enumeration.                                         *)

\* C3: when enumeration returns in an uninterrupted run the stored states
\* are exactly the canonical states reachable from the starting position
C3_EnumerationClosed ==
    (Uninterrupted /\ pc = "enum_done") => EnumerationComplete

-----------------------------------------------------------------------------
(* C4: the predecessor index.                                              *)

\* C4: after build_predecessors_streaming has returned on a completely
\* enumerated database, for every stored non-terminal u and every legal move
\* u -> v, get_predecessors(id(v)) contains id(u)
C4_PredecessorsBuilt ==
    (Uninterrupted /\ pc = "build_done" /\ EnumerationComplete) => PredecessorsComplete

-----------------------------------------------------------------------------
(* C5: results are assigned once.                                          *)

\* a step keeps every stored result that is not UNKNOWN
ResultsKept ==
    \A id \in (DOMAIN db.states) \cap (DOMAIN db'.states) :
        db.states[id].result # UNKNOWN => db'.states[id].result = db.states[id].result

\* C5: in Phase 3 and Phase 4 of an uninterrupted run no write changes a
\* stored result that is not UNKNOWN
C5_ResultAssignedOnce ==
    [][(Uninterrupted /\ m.phase_ \in {MARKING_TERMINALS, PROPAGATING}) => ResultsKept]_vars

-----------------------------------------------------------------------------
(* C6: the persisted phase.                                                *)

\* C6: over every sequence of solve() calls, kills, close() and re-open on
\* one database no step lowers the persisted phase
C6_PhaseMonotone ==
    [][PersistedPhase(db') >= PersistedPhase(db)]_vars

\* a killed and restarted solver has brought the persisted phase to COMPLETE
C6_Witness ==
    crashes = 1 /\ runs = 2 /\ PersistedPhase(db) = COMPLETE

-----------------------------------------------------------------------------
(* C7: solve() on a COMPLETE database.                                     *)

\* C7: while the persisted phase is COMPLETE, solve() enters no phase
\* function and no step changes any key of any column family
C7_CompleteIsNoOp ==
    [][PersistedPhase(db) = COMPLETE =>
           (db' = db /\ pc' \in {"solve", "solve_return", "closed"})]_vars

\* the first run was closed after solve() returned; solve() was called
\* again on the re-opened COMPLETE database and has returned
C7_Witness ==
    crashes = 0 /\ runs = 2 /\ pc = "solve_return" /\ PersistedPhase(db) = COMPLETE

-----------------------------------------------------------------------------
(* C8: the commit of a batch of the parallel enumerator.                   *)

\* the program counters of enumerate_states_parallel's batch loop
EnumParLoopPcs == {"enum_par_loop", "enum_par_save", "enum_par_final"}

\* C8: at every point of the batch loop of the parallel enumerator, in a
\* run that was never killed, the persisted num_states and queue_tail are
\* those of the persisted states and queue entries
C8_BatchCommitAtomic ==
    (Uninterrupted /\ pc \in EnumParLoopPcs /\ Has(db.metadata, "num_states")) =>
        /\ db.metadata["num_states"] = Cardinality(DOMAIN db.states)
        /\ db.metadata["queue_tail"] = Cardinality(DOMAIN db.queue)

-----------------------------------------------------------------------------
(* C9: enumeration after a kill.                                           *)

\* C9: when the parallel enumerator returns in a run that followed a kill
\* in Phase 1, the stored states are exactly the reachable ones and every
\* non-terminal one of them has been expanded
C9_ResumedEnumeration ==
    (crashes > 0 /\ pc = "enum_done" /\ m.num_threads_ > 1) =>
        (EnumerationComplete /\ AllExpanded)

-----------------------------------------------------------------------------
(* C10: the classification after Phase 3.                                  *)

\* the side to move has won at p
MoverWon(p) ==
    \/ check_terminal(p) = WHITE_WINS /\ white_to_move(p)
    \/ check_terminal(p) = BLACK_WINS /\ ~white_to_move(p)

\* the other side has won at p, or the side to move has no legal move
MoverLost(p) ==
    \/ check_terminal(p) = WHITE_WINS /\ ~white_to_move(p)
    \/ check_terminal(p) = BLACK_WINS /\ white_to_move(p)
    \/ check_terminal(p) = ONGOING /\ generate_moves(p) = <<>>

\* C10: when Phase 3 has completed on a completely enumerated database
\* whose num_states counts the stored states, every stored state is WIN iff
\* the side to move has won, LOSS iff the other side has won or there is no
\* legal move, and UNKNOWN otherwise
C10_TerminalsMarked ==
    (pc = "mark_done" /\ EnumerationComplete
     /\ m.num_states_ = Cardinality(DOMAIN db.states)) =>
        \A id \in DOMAIN db.states :
            LET p == db.states[id].packed
                r == db.states[id].result
            IN  /\ (r = WIN) <=> MoverWon(p)
                /\ (r = LOSS) <=> MoverLost(p)
                /\ (~MoverWon(p) /\ ~MoverLost(p)) => r = UNKNOWN

-----------------------------------------------------------------------------
(* C11: the resumed scan of Phase 3.                                       *)

\* the classification Phase 3 gives to position p
TerminalClass(p) ==
    IF MoverWon(p) THEN WIN ELSE IF MoverLost(p) THEN LOSS ELSE UNKNOWN

\* mark_terminals_parallel has just positioned its iterator on a persisted
\* cursor
ResumedScanStarts ==
    /\ pc = "mark_par_loop"
    /\ l.i = 1
    /\ l.processed > 0

\* C11: when Phase 3 resumes from a persisted terminal_checkpoint cursor on
\* a completely enumerated database, every stored state that does not yet
\* have its Phase 3 classification is among the states the resumed
\* iterator will visit
C11_ResumedScanCoversRest ==
    (ResumedScanStarts /\ EnumerationComplete) =>
        \A id \in DOMAIN db.states :
            db.states[id].result # TerminalClass(db.states[id].packed) =>
                \E k \in 1..Len(l.it) : l.it[k].id = id

-----------------------------------------------------------------------------
(* C12: Phase 4 after a kill.                                              *)

\* the number of moves of state id that lead to a state stored as WIN
WinMoves(id) ==
    LET moves == generate_moves(db.states[id].packed)
    IN  Cardinality({ i \in 1..Len(moves) : ResultOf(moves[i]) = WIN })

\* the number of places of sq that hold x
Occ(sq, x) == Cardinality({ i \in 1..Len(sq) : sq[i] = x })

\* every entry u of the predecessor list of v is a stored state, and u is
\* listed at most once per move of u that leads to v
PredecessorsSound ==
    \A v \in DOMAIN db.states :
        LET ps == get_predecessors(db, v)
        IN  \A u \in Range(ps) :
                /\ Has(db.states, u)
                /\ Occ(ps, u) <= Occ(generate_moves(db.states[u].packed), db.states[v].packed)

\* C12: in a run of Phase 4 that follows a kill, on a completely enumerated
\* database whose predecessor lists hold only real edges, no winning_succs
\* increment is applied twice: the stored winning_succs of a state never
\* exceeds the number of its moves that lead to a WIN state
C12_NoIncrementTwice ==
    (crashes > 0 /\ m.phase_ = PROPAGATING /\ EnumerationComplete /\ PredecessorsSound) =>
        \A id \in DOMAIN db.states : db.states[id].winning_succs <= WinMoves(id)

-----------------------------------------------------------------------------
(* C13: two solves of the same game.                                       *)

RECURSIVE AppendNew(_, _, _)
\* order, extended by the states among moves[j..] it does not hold yet
AppendNew(order, moves, j) ==
    IF j > Len(moves) THEN order
    ELSE AppendNew(IF moves[j] \in Range(order) THEN order ELSE Append(order, moves[j]),
                   moves, j + 1)

RECURSIVE DiscoveryOrder(_, _)
\* the order in which enumerate_states registers the states: the queue is
\* served first in, first out, and the moves of a state are taken in order
DiscoveryOrder(order, i) ==
    IF i > Len(order) THEN order
    ELSE DiscoveryOrder(AppendNew(order, ExpandMoves([packed |-> order[i]]), 1), i + 1)

\* the id enumerate_states gives to packed state p
SequentialId(p) ==
    LET order == DiscoveryOrder(<<start_packed>>, 1)
    IN  (CHOOSE k \in 1..Len(order) : order[k] = p) - 1

\* C13: the id of a packed state does not depend on the thread count: after
\* a full uninterrupted solve every registered packed state has the id that
\* the single-threaded enumeration gives it
C13_SameIds ==
    FinishedUninterrupted =>
        \A p \in DOMAIN db.packed_to_id :
            p \in ReachablePacked /\ db.packed_to_id[p] = SequentialId(p)

-----------------------------------------------------------------------------
(* C14: the counters of Phase 4.                                           *)

\* solve() is in propagate()
InPropagate == pc \in {"propagate", "prop_wave", "prop_draw", "prop_clear", "prop_done"}

\* C14: in every state reached during Phase 4 every stored state has
\* winning_succs <= num_successors, and no stored state whose winning_succs
\* has been raised to num_successors is still UNKNOWN
C14_WinningSuccsBounded ==
    InPropagate =>
        \A id \in DOMAIN db.states :
            /\ db.states[id].winning_succs <= db.states[id].num_successors
            /\ (db.states[id].winning_succs > 0
                /\ db.states[id].winning_succs = db.states[id].num_successors)
                   => db.states[id].result # UNKNOWN

-----------------------------------------------------------------------------
(* C15: the writes of a phase and the persisted phase.                     *)

\* the store after worker t has written what it still holds: the buffered
\* predecessor lists of a Phase 2 worker, the local batch of a Phase 4 worker
Committed(d, worker, t) ==
    IF "local_preds" \in DOMAIN worker THEN flush_buffer(d, worker.local_preds, t)
    ELSE IF worker.local_batch_count > 0 THEN Write(d, worker.local_batch)
    ELSE d

-----------------------------------------------------------------------------
(* C16: the predecessor lists.                                             *)

\* C16: every predecessor list written by Phase 2 holds each predecessor id
\* at most once per successor
C16_PredecessorsOnce ==
    \A v \in DOMAIN db.states :
        LET ps == get_predecessors(db, v)
        IN  \A u \in Range(ps) : Occ(ps, u) = 1

-----------------------------------------------------------------------------
(* C17, C18: get_best_move on a solved database.                           *)

\* get_best_move has returned for state l.state on a solved database
Queried ==
    /\ pc = "solve_return"
    /\ PersistedPhase(db) = COMPLETE
    /\ "state" \in DOMAIN l

\* the stored result of the state that move i of state s leads to
ChildResult(s, i) == lookup_result(db, generate_moves(s)[i])

\* the moves of state s that lead to a state stored with result r
MovesTo(s, r) == { i \in 1..Len(generate_moves(s)) : ChildResult(s, i) = r }

C18_LossPrefersDraw ==
    (Queried /\ l.result = LOSS /\ MovesTo(l.state, DRAW) # {}) =>
        (l.move \in MovesTo(l.state, DRAW))

-----------------------------------------------------------------------------
(* C19, C20: canonicalization.                                             *)

\* C19: get_result returns the same value for a state, for its canonical
\* form and for every state of its symmetry orbit; when the canonical form
\* is not registered the value is UNKNOWN; the database is not written
C19_ResultOfOrbit ==
    pc = "result" =>
        LET st == env.state
            canonical == canonicalize(st)[1]
        IN  /\ get_result(db, canonical) = l.result
            /\ \A sym \in 0..(NUM_SYMMETRIES - 1) :
                  get_result(db, apply_symmetry(st, sym)) = l.result
            /\ ~Has(db.packed_to_id, pack_state(canonical)) => l.result = UNKNOWN
            /\ db = BoardDB

\* get_result has found the stored result of a state that is not its own
\* canonical form
C19_Witness ==
    /\ pc = "result"
    /\ canonicalize(env.state)[2] # 0
    /\ l.result \in {WIN, LOSS}

\* C20: for every valid state canonicalize selects symmetry 0 or 4 only, and
\* check_terminal gives the same answer for the canonical form as for the
\* state
C20_CanonicalKeepsTerminal ==
    pc = "canonicalized" =>
        /\ l.sym \in {0, 4}
        /\ check_terminal_state(l.canonical) = check_terminal_state(env.state)

\* C21: canonicalize gives the same packed state for every state of a
\* symmetry orbit, and canonicalize of a canonical state returns that state
\* with symmetry index 0
C21_CanonicalOfOrbit ==
    pc = "canonicalized" =>
        /\ \A g \in 0..(NUM_SYMMETRIES - 1) :
              pack_state(canonicalize(apply_symmetry(env.state, g))[1])
                  = pack_state(l.canonical)
        /\ canonicalize(l.canonical) = <<l.canonical, 0>>

\* canonicalize has returned a rotation of a state
C21_Witness ==
    /\ pc = "canonicalized"
    /\ l.sym \in {1, 2, 3}
    /\ l.canonical # env.state

-----------------------------------------------------------------------------
(* C22: packing.                                                           *)

\* C22: unpack_state(pack_state(s)) = s for every state whose pawns are on
\* squares 0..24 and whose bobail square is in 0..24, for either side to move
C22_PackUnpackRoundTrip ==
    pc = "unpacked" => l.unpacked = env.state

\* a state with the bobail on a square above 15 and a pawn on square 24 has
\* been packed and unpacked
C22_Witness ==
    /\ pc = "unpacked"
    /\ env.state.bobail_sq > 15
    /\ 24 \in env.state.black_pawns
    /\ l.packed = pack_state(env.state)

-----------------------------------------------------------------------------
(* C23: a failing store.                                                   *)

\* C23: when a store read or write has failed during a phase of a run,
\* solve() does not advance the persisted phase beyond that phase in this
\* run and does not return success to its caller
C23_FailureAbortsSolve ==
    (env.fault.failed /\ env.fault.run = runs /\ pc # "closed") =>
        /\ PersistedPhase(db) <= env.fault.phase
        /\ pc # "solve_return"

-----------------------------------------------------------------------------
(* main() with --import: open() on a fresh directory, import_checkpoint(), *)
(* set_num_threads(), solve().                                             *)

\* a checkpoint file of the in-memory solver for the game, saved when its
\* phase_ had the value `phase`.  During ENUMERATING: the file saved after the
\* first state was expanded, with the states found so far and the ids still
\* queued.  Later: all states in the order of their ids, the queue empty,
\* with the terminal results once mark_terminals has run
CheckpointFile(phase) ==
    LET first == AppendNew(<<start_packed>>, ExpandMoves([packed |-> start_packed]), 1)
        order == IF phase = ENUMERATING THEN first
                 ELSE DiscoveryOrder(<<start_packed>>, 1)
        enumerated(p) ==
            StateInfoCompact(p, UNKNOWN,
                             IF check_terminal(p) # ONGOING THEN 0
                             ELSE Len(generate_moves(p)), 0)
        states == [ i \in 1..Len(order) |->
                      IF phase >= PROPAGATING THEN MarkInfo(enumerated(order[i]))[1]
                      ELSE IF phase = ENUMERATING /\ i > 1
                      THEN StateInfoCompact(order[i], UNKNOWN, 0, 0)
                      ELSE enumerated(order[i]) ]
    IN  [ phase |-> phase,
          num_wins |-> Cardinality({ i \in 1..Len(order) : states[i].result = WIN }),
          num_losses |-> Cardinality({ i \in 1..Len(order) : states[i].result = LOSS }),
          num_draws |-> 0, start_id |-> 0,
          enum_processed |-> IF phase = ENUMERATING THEN 1 ELSE Len(order),
          states |-> states,
          queue |-> IF phase = ENUMERATING THEN [ i \in 1..(Len(order) - 1) |-> i ]
                    ELSE <<>> ]

\* open(), import_checkpoint(file) and set_num_threads(n); then solve() is
\* entered
ImportCheckpoint ==
    /\ pc = "closed"
    /\ runs = 0
    /\ \E phase \in {ENUMERATING, BUILDING_PREDECESSORS, MARKING_TERMINALS, PROPAGATING},
          n \in env.threads :
         LET file == CheckpointFile(phase)
             opened == load_metadata(db, NewSolver)
             state_ops(i) == << OpPut("states", i - 1, file.states[i]),
                                OpPut("packed_to_id", file.states[i].packed, i - 1) >>
             states_written ==
                 Write(db, [ k \in 1..(2 * Len(file.states)) |->
                               state_ops((k + 1) \div 2)[2 - (k % 2)] ])
             queue_written ==
                 Write(states_written,
                       [ i \in 1..Len(file.queue) |-> OpPut("queue", i - 1, file.queue[i]) ])
             imported ==
                 [ opened EXCEPT !.phase_ = file.phase, !.num_wins_ = file.num_wins,
                                 !.num_losses_ = file.num_losses,
                                 !.num_draws_ = file.num_draws,
                                 !.start_id_ = file.start_id,
                                 !.enum_processed_ = file.enum_processed,
                                 !.num_states_ = Len(file.states),
                                 !.queue_head_ = 0, !.queue_tail_ = Len(file.queue) ]
         IN  /\ db' = save_metadata(queue_written, imported)
             /\ m' = [imported EXCEPT !.num_threads_ = n]
    /\ pc' = "solve"
    /\ runs' = runs + 1
    /\ UNCHANGED <<l, w, crashes, timer, env>>

\* main() started on a fresh directory with --import or without it, and
\* started again later without it
InitImport ==
    /\ Fresh
    /\ env \in { [game |-> Chain3, threads |-> 1..MaxThreads],
                 [game |-> Fork3, threads |-> 1..MaxThreads],
                 [game |-> Game8, threads |-> {1}] }

NextImport == Open \/ ImportCheckpoint \/ Solve \/ Close

SpecImport == InitImport /\ [][NextImport]_vars

\* C24: after import_checkpoint the predecessors column family is empty, and
\* the solve() that follows builds the predecessors before propagate() runs,
\* whatever phase the checkpoint file carried
C24_ImportRebuildsPredecessors ==
    /\ [][ImportCheckpoint => db'.predecessors = EmptyCF]_vars
    /\ [](InPropagate => db.predecessors # EmptyCF)

-----------------------------------------------------------------------------
(* C25 - C27: the workers of Phase 4.                                      *)

\* the workers of the wave have all left their loops
WaveEnded == pc = "prop_wave" /\ \A t \in DOMAIN w : w[t].pc = "done"

\* C25: when the wave ends every queue slot below the final tail has been
\* popped and processed: no worker has left on a slot index that lies below
\* the final tail
C25_NoSlotSkipped ==
    WaveEnded => \A t \in DOMAIN w : w[t].my_pos >= l.atomic_prop_tail

\* the updates of state id that wait, unwritten, in the local batches of the
\* workers still in their loops
PendingInfos(id) ==
    UNION { { w[u].local_batch[i].v :
                i \in { j \in 1..Len(w[u].local_batch) :
                          /\ w[u].local_batch[j].cf = "states"
                          /\ w[u].local_batch[j].k = id } } :
            u \in { x \in DOMAIN w : w[x].pc # "done" } }

\* C26: the read of a predecessor under its stripe lock sees the latest
\* update made to it by any worker, the reader included, so no increment of
\* winning_succs is lost: when a worker is about to read an unresolved
\* predecessor for a WIN child, no worker holds an unwritten update of that
\* predecessor with a higher winning_succs than the store shows
C26_NoIncrementLost ==
    pc = "prop_wave" =>
        \A t \in DOMAIN w :
            (/\ w[t].pc = "preds"
             /\ w[t].child_result = WIN
             /\ Has(db.states, w[t].preds[w[t].pi])
             /\ db.states[w[t].preds[w[t].pi]].result = UNKNOWN)
            => \A info \in PendingInfos(w[t].preds[w[t].pi]) :
                  info.winning_succs <= db.states[w[t].preds[w[t].pi]].winning_succs

\* the ids that wait, unwritten, for queue slot pos in the local batches of
\* the workers still in their loops
PendingSlot(pos) ==
    UNION { { w[u].local_batch[i].v :
                i \in { j \in 1..Len(w[u].local_batch) :
                          /\ w[u].local_batch[j].cf = "queue"
                          /\ w[u].local_batch[j].k = pos } } :
            u \in { x \in DOMAIN w : w[x].pc # "done" } }

\* C27: when a worker has popped a slot below the tail, the queue entry of
\* the slot is in the store and holds the id that was enqueued there: the
\* entry is not missing and no worker still holds the id for that slot
\* unwritten
C27_PoppedSlotReadable ==
    pc = "prop_wave" =>
        \A t \in DOMAIN w :
            w[t].pc = "read" =>
                /\ Has(db.queue, w[t].my_pos)
                /\ PendingSlot(w[t].my_pos) = {}

-----------------------------------------------------------------------------
(* C28 - C30: the ring buffer and the shards of Phase 2.                   *)

\* C28: every item pushed into the ring buffer is consumed by one worker and
\* the producer does not overwrite a slot before the worker that claimed it
\* has read it: while a worker holds a claimed position, the slot of that
\* position still holds the item that was pushed at that position
C28_ClaimedSlotKept ==
    pc = "build_run" =>
        \A t \in DOMAIN w :
            w[t].pc = "claimed" =>
                l.work_queue[w[t].my_read % QUEUE_SIZE] = l.it[w[t].my_read + 1]

\* C29: the predecessor entries a worker has written during Phase 2 stay on
\* disk until the phase ends: no step of the phase removes an entry from
\* the list stored under a key
C29_FlushedEntriesKept ==
    [][pc = "build_run" =>
         \A k \in DOMAIN db.predecessors :
             /\ k \in DOMAIN db'.predecessors
             /\ \A u \in Range(db.predecessors[k]) :
                   Occ(db'.predecessors[k], u) >= Occ(db.predecessors[k], u)]_vars

\* the largest thread count of the runs below; set_num_threads stores any
\* int, and main() only raises values below 1 to 1
MaxShardThreads == 17

\* Phase 2 of Chain3 with n threads, near its end, after an enumeration that
\* gave the positions 1, 2, 3 the ids 0, 1, 2: the ring is empty and the
\* producer is done; worker a has processed the start state and, its buffer
\* full, has flushed the two entries for the successor with id 1; worker b
\* has processed that successor and holds one entry in local_preds; the
\* other workers have found nothing to take and have left
InitShards ==
    /\ env = [game |-> Chain3, threads |-> 2..MaxShardThreads]
    /\ \E n \in env.threads :
         \E a, b \in 0..(n - 1) :
            /\ a # b
            /\ LET positions == <<1, 2, 3>>
                   solver == [ NewSolver EXCEPT !.phase_ = BUILDING_PREDECESSORS,
                                                 !.num_states_ = Len(positions),
                                                 !.enum_processed_ = Len(positions),
                                                 !.queue_head_ = Len(positions),
                                                 !.queue_tail_ = Len(positions),
                                                 !.num_threads_ = n ]
                   enumerated ==
                       save_metadata(
                           [ EmptyDB EXCEPT
                               !.states = [ id \in 0..(Len(positions) - 1) |->
                                              StateInfoCompact(
                                                  positions[id + 1], UNKNOWN,
                                                  Len(ExpandMoves([packed |-> positions[id + 1]])),
                                                  0) ],
                               !.packed_to_id = [ q \in Range(positions) |-> q - 1 ] ],
                           solver)
               IN  /\ m = solver
                   /\ db = flush_buffer(enumerated, PutKV(EmptyCF, 1, <<0, 0>>), a)
                   /\ l = [ packed_to_id_cache_ |-> enumerated.packed_to_id,
                            atomic_enum_processed_ |-> Len(positions),
                            work_queue |-> [ i \in 0..(QUEUE_SIZE - 1) |->
                                               WorkItem(i + 1, positions[i + 2]) ],
                            queue_write |-> Len(positions),
                            queue_read |-> Len(positions),
                            producer_done |-> TRUE,
                            it |-> IterItems(enumerated, SortKeys(DOMAIN enumerated.states), 1) ]
                   /\ w = [ t \in 0..(n - 1) |->
                              IF t = a THEN [BuildWorker EXCEPT !.my_read = 0]
                              ELSE IF t = b
                              THEN [BuildWorker EXCEPT !.my_read = 1,
                                                       !.local_preds = PutKV(EmptyCF, 2, <<1>>),
                                                       !.local_pred_count = 1]
                              ELSE [BuildWorker EXCEPT !.pc = "done"] ]
    /\ pc = "build_run"
    /\ crashes = 0
    /\ runs = 1
    /\ timer = 0

NextShards == (\E t \in DOMAIN w : BuildExit(t)) \/ BuildJoin \/ BuildPredecessorsDone

SpecShards == InitShards /\ [][NextShards]_vars

\* C30: for every thread count that set_num_threads accepts, every entry
\* that a worker t has flushed under the key (v_id, t) is returned by
\* get_predecessors(v_id)
C30_ShardsAreRead ==
    pc = "build_done" =>
        \A k \in DOMAIN db.predecessors :
            \A u \in Range(db.predecessors[k]) :
                Occ(get_predecessors(db, k[1]), u) >= Occ(db.predecessors[k], u)

-----------------------------------------------------------------------------
(* C31: Phase 2 after a kill.                                              *)

\* C31: when Phase 2 has run again from its beginning after a kill, on a
\* completely enumerated database, the predecessor lists hold no extra or
\* duplicate edge: every listed predecessor is listed at most once per move
\* that leads to the successor
C31_RerunLeavesNoExtraEdge ==
    (crashes > 0 /\ pc = "build_done" /\ EnumerationComplete) => PredecessorsSound

-----------------------------------------------------------------------------
(* C32: the end of Phase 1.                                                *)

\* C32: when enumeration has returned (the step before BUILDING_PREDECESSORS is
\* set) the queue is drained, queue_head_ = queue_tail_, every id below
\* num_states_ has been queued (queue_tail_ = num_states_) and is stored with
\* its number of successors: 0 for a terminal state, the number of legal
\* moves otherwise
C32_EnumerationDrained ==
    pc = "enum_done" =>
        /\ m.queue_head_ = m.queue_tail_
        /\ m.queue_tail_ = m.num_states_
        /\ \A id \in 0..(m.num_states_ - 1) :
              /\ id \in DOMAIN db.states
              /\ db.states[id].num_successors =
                    (IF Terminal(db.states[id].packed) THEN 0
                     ELSE Len(generate_moves(db.states[id].packed)))

-----------------------------------------------------------------------------
(* C33: the queue at the start of the wave.                                *)

\* the wave of a non-resumed propagate has just been started: no checkpoint,
\* no position taken yet, every worker at the top of its loop
WaveStarts ==
    /\ pc = "prop_wave"
    /\ ~Has(db.metadata, "prop_checkpoint")
    /\ l.atomic_prop_head = 0
    /\ \A t \in DOMAIN w : w[t] = PropWorker

\* C33: when the wave of a non-resumed propagate starts, the queue holds
\* exactly the seed entries at the indices [0, S), one per state whose result
\* is not UNKNOWN, and no entry at an index >= S
C33_QueueHoldsSeedsOnly ==
    WaveStarts =>
        /\ DOMAIN db.queue = 0..(l.atomic_prop_tail - 1)
        /\ { db.queue[i] : i \in DOMAIN db.queue }
             = { id \in DOMAIN db.states : db.states[id].result # UNKNOWN }
        /\ \A i, j \in DOMAIN db.queue : db.queue[i] = db.queue[j] => i = j

-----------------------------------------------------------------------------
(* C34: the stripe locks of Phase 4.                                       *)

\* uninterrupted runs in which the taking of a stripe lock is a step
InitLocks ==
    /\ Fresh
    /\ env \in { [game |-> Fork3, threads |-> 1..MaxThreads],
                 [game |-> Join3, threads |-> {MaxThreads}],
                 [game |-> Game8, threads |-> {1}] }

\* solve() with propagate_parallel at the grain of the lock
SolveLocks ==
    \/ SolveDispatch
    \/ EnumSeq \/ EnumPar \/ EnumerateDone
    \/ BuildPredecessors \/ BuildPredecessorsDone
    \/ MarkSeq \/ MarkPar \/ MarkTerminalsDone
    \/ PropagateLocks \/ PropagateDone

NextLocks == Open \/ SolveLocks \/ Close

\* the steps of propagation worker t
PropThread(t) ==
    /\ t \in DOMAIN w
    /\ PropPop(t) \/ PropCheck(t) \/ PropRead(t) \/ PropLock(t) \/ PropPredLocked(t)
       \/ PropEnd(t)

\* every propagation worker is a thread of its own that the scheduler runs
\* again and again
SpecLocks ==
    InitLocks /\ [][NextLocks]_vars /\ \A t \in 0..(MaxThreads - 1) : WF_vars(PropThread(t))

\* worker t is at the lock_guard of its next predecessor
RequestsLock(t) == pc = "prop_wave" /\ t \in DOMAIN w /\ w[t].pc = "preds"

\* worker t is inside the body of the loop, with the lock of its predecessor
HoldsLock(t) ==
    /\ pc = "prop_wave" /\ t \in DOMAIN w /\ w[t].pc = "locked"
    /\ (w[t].preds[w[t].pi] % NUM_LOCKS) \in w[t].locks

\* C34: during the wave no worker holds two stripe locks at once, and every
\* worker that requests a stripe lock eventually obtains it
C34_StripeLocks ==
    /\ [](pc = "prop_wave" => \A t \in DOMAIN w : Cardinality(w[t].locks) <= 1)
    /\ \A t \in 0..(MaxThreads - 1) : RequestsLock(t) ~> HoldsLock(t)

\* a worker is at the lock_guard of a predecessor whose stripe lock another
\* worker holds, or a worker holds the lock of its second predecessor, which
\* is another one than the lock of its first
C34_Witness ==
    \/ \E t, u \in DOMAIN w :
          /\ t # u
          /\ RequestsLock(t) /\ HoldsLock(u)
          /\ (w[t].preds[w[t].pi] % NUM_LOCKS) \in w[u].locks
          /\ env.game = Fork3
    \/ \E t \in DOMAIN w :
          /\ HoldsLock(t) /\ w[t].pi > 1
          /\ (w[t].preds[1] % NUM_LOCKS) # (w[t].preds[w[t].pi] % NUM_LOCKS)
          /\ env.game = Join3

-----------------------------------------------------------------------------
(* C35: the successor lookup of Phase 2.                                   *)

\* C35: while Phase 2 runs after a Phase 1 that returned without a kill,
\* every successor of every stored non-terminal state is found in the
\* packed-to-id cache, so that no worker skips a successor
C35_NoSuccessorSkipped ==
    (Uninterrupted /\ pc = "build_run") =>
        \A id \in DOMAIN db.states :
            LET moves == ExpandMoves(WorkItem(id, db.states[id].packed))
            IN  CountFound(l.packed_to_id_cache_, moves, 1) = Len(moves)

-----------------------------------------------------------------------------
(* C36: the bloom filter of the parallel enumeration.                      *)

\* C36: while enumerate_states_parallel runs with its bloom filter, every
\* registered state has been added to the filter, so that a successor the
\* filter does not contain is never a registered one
C36_BloomCoversRegistry ==
    (pc = "enum_par_loop" /\ m.bloom_filter_.present) =>
        \A p \in DOMAIN db.packed_to_id : maybe_contains(m.bloom_filter_, p)

-----------------------------------------------------------------------------
(* C37: the statistics of a finished solve.                                *)

\* the number of stored states with result r
StoredWith(r) == Cardinality({ id \in DOMAIN db.states : db.states[id].result = r })

\* C37: when solve() returns with phase COMPLETE, num_wins_, num_losses_ and
\* num_draws_ are the numbers of stored states with result WIN, LOSS and
\* DRAW, and their sum is num_states_
C37_CountersMatchResults ==
    (pc = "solve_return" /\ m.phase_ = COMPLETE) =>
        /\ m.num_wins_ = StoredWith(WIN)
        /\ m.num_losses_ = StoredWith(LOSS)
        /\ m.num_draws_ = StoredWith(DRAW)
        /\ m.num_wins_ + m.num_losses_ + m.num_draws_ = m.num_states_

-----------------------------------------------------------------------------
(* C38: the appends to the propagation queue.                              *)

\* the id appended at queue slot pos: still in the local batch of a worker,
\* or written to the store
AppendedAt(pos) ==
    IF PendingSlot(pos) # {} THEN PendingSlot(pos)
    ELSE IF Has(db.queue, pos) THEN {db.queue[pos]} ELSE {}

\* C38: during the wave of an uninterrupted run no state id stands at two
\* slots below the tail of the propagation queue, and the tail does not
\* exceed num_states_
C38_AppendedOnce ==
    (Uninterrupted /\ pc = "prop_wave") =>
        /\ l.atomic_prop_tail <= m.num_states_
        /\ \A i, j \in 0..(l.atomic_prop_tail - 1) :
              i # j => AppendedAt(i) \cap AppendedAt(j) = {}

-----------------------------------------------------------------------------
(* C39: the termination of Phase 2.                                        *)

\* the steps of the producer thread
Producer == ProducerPush \/ ProducerDone

\* the steps of worker thread t of build_predecessors_streaming
BuildThread(t) ==
    /\ t \in DOMAIN w
    /\ BuildClaim(t) \/ BuildProcess(t) \/ BuildExit(t)

\* uninterrupted runs in which the producer, every worker and the joining
\* main thread of Phase 2 are run again and again by the scheduler
SpecBuildFair ==
    /\ InitRun /\ [][NextRun]_vars
    /\ WF_vars(Producer)
    /\ \A t \in 0..(MaxThreads - 1) : WF_vars(BuildThread(t))
    /\ WF_vars(BuildJoin)

\* C39: build_predecessors_streaming always terminates: once its threads run,
\* the producer eventually has pushed every state and set producer_done, and
\* every worker eventually has left its loop after its final flush, so that
\* the function returns
C39_BuildTerminates ==
    /\ (pc = "build_run")
          ~> (/\ pc = "build_run"
              /\ l.producer_done /\ l.queue_write = Len(l.it)
              /\ l.queue_read >= l.queue_write
              /\ \A t \in DOMAIN w : w[t].pc = "done" /\ w[t].local_preds = EmptyCF)
    /\ (pc = "build_run") ~> (pc = "build_done")

\* the producer waits at a full ring with states still to push
C39_Witness ==
    /\ pc = "build_run"
    /\ ~l.producer_done
    /\ l.queue_write < Len(l.it)
    /\ l.queue_write - l.queue_read = QUEUE_SIZE

-----------------------------------------------------------------------------
(* C40: the in-memory reference solver, RetrogradeSolver.                  *)

RECURSIVE RefPredecessors(_, _, _)
\* RetrogradeSolver::build_predecessors: the predecessor list of the state
\* with packed value v, filled by the states order[u], order[u + 1], ... in
\* this order, one entry per move that leads to v
RefPredecessors(order, v, u) ==
    IF u > Len(order) THEN <<>>
    ELSE LET moves == ExpandMoves([packed |-> order[u]])
         IN  [i \in 1..Cardinality({ k \in 1..Len(moves) : moves[k] = v }) |-> u - 1]
             \o RefPredecessors(order, v, u + 1)

\* RetrogradeSolver::enumerate_states, build_predecessors and mark_terminals:
\* states_ after the first three phases
RefStates ==
    LET order == DiscoveryOrder(<<start_packed>>, 1)
    IN  [ id \in 0..(Len(order) - 1) |->
            LET packed == order[id + 1]
                gr == check_terminal(packed)
                wtm == white_to_move(packed)
                moves == ExpandMoves([packed |-> packed])
            IN  [ packed |-> packed,
                  num_successors |-> Len(moves),
                  winning_succs |-> 0,
                  predecessors |-> RefPredecessors(order, packed, 1),
                  result |-> IF gr = WHITE_WINS THEN (IF wtm THEN WIN ELSE LOSS)
                             ELSE IF gr = BLACK_WINS THEN (IF ~wtm THEN WIN ELSE LOSS)
                             ELSE IF moves = <<>> THEN LOSS
                             ELSE UNKNOWN ] ]

RECURSIVE RefUpdate(_, _, _, _, _)
\* RetrogradeSolver::propagate, the loop over the predecessors of one popped
\* state, from index i: <<states_, queue>> afterwards
RefUpdate(states, queue, child_result, preds, i) ==
    IF i > Len(preds) THEN <<states, queue>>
    ELSE LET pred_id == preds[i]
             pred == states[pred_id]
         IN  IF pred.result # UNKNOWN
             THEN RefUpdate(states, queue, child_result, preds, i + 1)
             ELSE IF child_result = LOSS
             THEN RefUpdate([states EXCEPT ![pred_id].result = WIN],
                            Append(queue, pred_id), child_result, preds, i + 1)
             ELSE IF child_result = WIN
             THEN (IF pred.winning_succs + 1 >= pred.num_successors
                   THEN RefUpdate([states EXCEPT ![pred_id].winning_succs = @ + 1,
                                                 ![pred_id].result = LOSS],
                                  Append(queue, pred_id), child_result, preds, i + 1)
                   ELSE RefUpdate([states EXCEPT ![pred_id].winning_succs = @ + 1],
                                  queue, child_result, preds, i + 1))
             ELSE RefUpdate(states, queue, child_result, preds, i + 1)

RECURSIVE RefWave(_, _)
\* RetrogradeSolver::propagate, the FIFO loop: states_ when the queue is empty
RefWave(states, queue) ==
    IF queue = <<>> THEN states
    ELSE LET id == Head(queue)
             r == RefUpdate(states, Tail(queue), states[id].result,
                            states[id].predecessors, 1)
         IN  RefWave(r[1], r[2])

\* RetrogradeSolver::propagate: the solved states are queued in id order, the
\* wave runs, the states that are still UNKNOWN become DRAW
RefPropagate(states) ==
    LET ids == SortKeys(DOMAIN states)
        seeds == SelectSeq(ids, LAMBDA id : states[id].result # UNKNOWN)
        after == RefWave(states, seeds)
    IN  [ id \in DOMAIN after |->
            IF after[id].result = UNKNOWN THEN [after[id] EXCEPT !.result = DRAW]
            ELSE after[id] ]

\* C40: after a full uninterrupted solve the database holds, for every
\* canonical state of the reference solver, the result that the reference
\* solver gives it, whatever the thread count
C40_SameAsReference ==
    FinishedUninterrupted =>
        LET ref == RefPropagate(RefStates)
        IN  \A id \in DOMAIN ref : lookup_result(db, ref[id].packed) = ref[id].result

====
